---------------------------- MODULE Spec2Model ----------------------------
(***************************************************************************)
(* Model of the hyperliquid-node WebSocket gateway.                        *)
(*                                                                         *)
(* The subsystems are modelled, each with its own specifications:          *)
(*   Spec          the proxy (client.Hub, client.Client, proxy.Proxy of    *)
(*                 hyperliquid-ws-proxy) in local node mode;               *)
(*   SpecRemote    the proxy in remote mode;                               *)
(*   SpecCommands  the proxy in remote mode, commands only;                *)
(*   SpecConnector the upstream Connector on its own;                      *)
(*   SpecHyperWS   the stand-alone HyperWS server (Hub, Client, HyperWS);  *)
(*   SpecMalformed the proxy in remote mode, with malformed frames;        *)
(*   SpecPost      the proxy in remote mode, with post requests, and       *)
(*                 SpecPostFair, the same with the fairness of the timer   *)
(*                 and of the send of PostRequest;                         *)
(*   SpecFramesLocal  the proxy in local node mode, with malformed frames  *)
(*                 and post requests;                                      *)
(*   SpecTail      the two LocalNodeReaders tailing a block file that is   *)
(*                 written in two chunks;                                  *)
(*   SpecIngest    the AssetFetcher and the trades the readers derive      *)
(*                 from orders;                                            *)
(*   SpecStart     Proxy.Start, from the proxy NewProxy made;              *)
(*   SpecServer    the admission of sessions by HandleWebSocket;           *)
(*   SpecPublish   the fan-out of upstream frames to the sessions;         *)
(*   SpecUpstream  subscribe and unsubscribe with their goroutines that    *)
(*                 call the Connector;                                     *)
(*   SpecReconnect the Connector's attemptReconnect and its delays;        *)
(*   SpecTruncate  the readers tailing a file that may be truncated;       *)
(*   SpecBlocks    block files with lines that do not parse, and blocks    *)
(*                 with bundles and actions of every kind;                 *)
(*   SpecRing      the readers' per-coin trade histories over a long       *)
(*                 stream of orders;                                       *)
(*   SpecCalls     goroutines that call Connector.PostRequest at the same  *)
(*                 time;                                                   *)
(*   SpecWriter    the frames a session's writePump puts on the wire;      *)
(*   SpecStats     GetStats against the publisher of the local node;       *)
(*   SpecCoins     the local node's trades with sessions subscribed to     *)
(*                 different coins;                                        *)
(*   SpecPostIDs   post requests with the ids the sessions chose;          *)
(*   SpecPadded    the readers on block files with blank lines and lines   *)
(*                 surrounded by whitespace.                               *)
(* A Go critical section (one Lock .. Unlock) is one step.  A panic of the *)
(* Go runtime ends the process: `panic` records its message and no action  *)
(* is enabled afterwards.                                                  *)
(***************************************************************************)
EXTENDS Integers, Sequences, FiniteSets, TLC

(***************************************************************************)
(* Bounds of the model.                                                    *)
(***************************************************************************)
\* capacity of Client.Send (256 in the source, scaled down)
SendCap == 1
\* upstream subscribe/unsubscribe goroutines that may be pending at a time
MaxPending == 1
\* capacity of Connector.outgoingMessages (1000 in the source, scaled down)
OutCap == 2
\* sockets the connector dials at most (the first one included)
MaxDials == 2
\* `written` counts up to this number
MaxWritten == 2

\* Connector.maxRetries
maxRetries == 5
\* Connector.retryInterval, in seconds
retryInterval == 5

\* trades the local node reader holds per coin at most
MaxTrades == 1

\* post requests the connector is asked for at most
MaxRequests == 2

\* block records a log file holds at most
MaxRecords == 2

\* orders the readers process at most
MaxOrders == 2

\* config.Proxy.MaxClients (1000 by default, scaled down)
MaxClients == 1

\* bundles a block holds at most
MaxBundles == 2

\* orders of the long stream beyond the capacity of a ring of trades
RingExtra == 2

\* blocks a reader processes at most
MaxBlocks == 4

\* the Client objects ServeWS can create (pointer identities)
ClientPool == {"c1", "c2"}

Nil == <<>>

(***************************************************************************)
(* types.SubscriptionRequest and the subscription key.                     *)
(***************************************************************************)
SubscriptionRequest(t, u, c) ==
    [Type |-> t, User |-> u, Coin |-> c, Interval |-> "", Dex |-> ""]

AllMidsSub   == SubscriptionRequest("allMids", "", "")
TradesETHSub == SubscriptionRequest("trades", "", "ETH")

Coins == {"ETH"}

\* the subscription objects clients send
Subs == {AllMidsSub, TradesETHSub}

\* Proxy.createSubscriptionKey: type, then each non-empty field, joined by "-"
createSubscriptionKey(sub) ==
    LET k0 == sub.Type
        k1 == IF sub.User # "" THEN k0 \o "-" \o sub.User ELSE k0
        k2 == IF sub.Coin # "" THEN k1 \o "-" \o sub.Coin ELSE k1
        k3 == IF sub.Interval # "" THEN k2 \o "-" \o sub.Interval ELSE k2
        k4 == IF sub.Dex # "" THEN k3 \o "-" \o sub.Dex ELSE k3
    IN  k4

Keys == {createSubscriptionKey(s) : s \in Subs}

(***************************************************************************)
(* Frames.  A frame is <<channel, data>>.                                  *)
(***************************************************************************)
SubscriptionResponse(method, sub) ==
    <<"subscriptionResponse", <<method, createSubscriptionKey(sub)>>>>
ErrorFrame(msg) == <<"error", msg>>

\* data frames the upstream feed sends: <<channel, payload>>
UpstreamFrames ==
    {<<"allMids", "mids">>, <<"trades", "ETH">>,
     <<"subscriptionResponse", "ack">>}

VARIABLES
    \* ---- hyperliquid-ws-proxy: client.Hub / client.Client ----
    created,              \* Client objects made by ServeWS so far
    hubClients,           \* Hub.Clients
    Send,                 \* Client.Send: the buffered frames of each client
    closeCount,           \* how many times close(client.Send) has run
    Subscriptions,        \* Client.Subscriptions: key -> subscription
    \* ---- hyperliquid-ws-proxy: proxy.Proxy ----
    useLocalNode,         \* Proxy.useLocalNode
    globalSubscriptions,  \* Proxy.globalSubscriptions: key -> SubscriptionInfo
    cmd,                  \* where processClientMessages is in its handler
    subscribeGoroutines,  \* pending `go func()` of handleSubscribe
    panic,                \* "" or the message of the runtime panic
    \* ---- hyperliquid.Connector ----
    isConnected,          \* Connector.isConnected
    conn,                 \* Connector.conn: the socket's number, 0 for nil
    dials,                \* sockets dialled so far
    subscriptions,        \* Connector.subscriptions: key -> subscription
    outgoingMessages,     \* Connector.outgoingMessages
    currentRetries,       \* Connector.currentRetries
    reconnecting,         \* an attemptReconnect goroutine is running
    attempt,              \* attemptReconnect: the turns of its loop so far
    delay,                \* attemptReconnect: `delay` in seconds, set by the
                          \* turn that has slept and has not called Connect
                          \* yet; 0 otherwise
    resubscribers,        \* the resubscribeAll goroutines: "sleep", or the
                          \* subscriptions of its snapshot still to send
    readPumps,            \* the socket each live Connector.readPump reads
    writePumps,           \* number of live Connector.writePump goroutines
    written,              \* history, per key: subscribe frames written to
                          \* the current socket since the last unsubscribe
                          \* frame for the key
    trackedAtFailure,     \* history: keys tracked when the connection was
                          \* last lost
    \* ---- proxy.LocalNodeReader (its data cache) ----
    latestTrades,         \* LocalNodeReader.latestTrades: coin -> trade ids
    \* ---- HyperWS: Hub, Client, LocalNodeReader ----
    hwCreated,            \* Client objects made by handleWebSocket so far
    hwClients,            \* Hub.clients
    hwSubscriptions,      \* Hub.subscriptions: key -> set of clients
    hwSend,               \* Client.send: the buffered frames of each client
    hwCloseCount,         \* how many times close(client.send) has run
    hwClientSubscriptions,\* Client.subscriptions: key -> subscription
    hwHandler,            \* where the handler running in each client's
                          \* readPump is
    hwPanic,              \* "" or the message of the runtime panic
    hwLatestTrades,       \* LocalNodeReader.latestTrades of HyperWS
    \* ---- hyperliquid.Connector: post requests ----
    postRequests,         \* Connector.postRequests: id -> what is buffered
                          \* in the response channel of the id
    nextRequestID,        \* Connector.nextRequestID
    closedChans,          \* ids whose response channel has been closed
    postDelivering,       \* the ids whose channel a handlePostResponse
                          \* holds between its lookup and its send
    \* ---- LocalNodeReader: tailing one block file ----
    logFile,              \* the bytes of the block file on disk
    logPending,           \* the bytes the node has still to append
    lastReadFiles,        \* LocalNodeReader.lastReadFiles for the file
    blocks,               \* the lines handed to processBlock, in order
    scanned,              \* a scan has run since the last append
    hwLastReadFiles,      \* the same three for the reader of HyperWS
    hwBlocks,
    hwScanned,
    \* ---- proxy.AssetFetcher ----
    perpAssets,           \* AssetFetcher.perpAssets: index -> AssetInfo
    spotAssets,           \* AssetFetcher.spotAssets: 10000+index -> AssetInfo
    assetsByName,         \* AssetFetcher.assetsByName: name -> AssetInfo
    fetcherState,         \* "new", "running" (periodicUpdate was started)
                          \* or "failed" (Start returned the error)
    \* ---- LocalNodeReader: the trades derived from orders ----
    readerTrades,         \* LocalNodeReader.latestTrades: symbol -> trades
    readerPrices,         \* LocalNodeReader.latestPrices: symbol -> price
    hwReaderTrades,       \* the same two of the reader of HyperWS
    hwReaderPrices,
    ordersDone,           \* the orders processed so far
    \* ---- Proxy.Start ----
    startResult,          \* "none" before Proxy.Start has returned, then
                          \* "ok" (it returned nil) or "error"
    logRoot,              \* the replica_cmds directory can be opened
    dialOK,               \* the first dial of the connector succeeds
    \* ---- server.Server ----
    admitted,             \* the requests handleWebSocket has let pass its
                          \* limit check and ServeWS has not registered yet
    \* ---- proxy.Proxy, the goroutines of handleUnsubscribe ----
    unsubscribeGoroutines, \* pending `go func()` of handleUnsubscribe
    \* ---- LocalNodeReader.processBlock ----
    block,                \* the block processBlock was handed: its
                          \* signed_action_bundles
    bundleIndex,          \* the bundles of `block` processed so far
    ordersSeen,           \* the orders handed to processOrders so far
    \* ---- LocalNodeReader of HyperWS ----
    hwOrdersDone,         \* the orders of the stream HyperWS has processed
    \* ---- goroutines that call Connector.PostRequest ----
    calls,                \* where each of them is in PostRequest
    \* ---- client.Client.writePump and the socket it writes ----
    held,                 \* the frame writePump has received from Send and
                          \* not written yet, per client
    wire,                 \* the network writes on each client's socket
    queued,               \* history: the frames that went into Send
    pumpState,            \* "run", or "done" once writePump has returned
    \* ---- Proxy.stats and the locks stats.mu and subMu ----
    statsPC,              \* where GetStats is: "idle", or "sub" when it
                          \* holds stats.mu for reading and is about to
                          \* take subMu
    publishPC,            \* where forwardMessageToClients is: "idle", or
                          \* "stats" when it holds subMu and is about to
                          \* take stats.mu
    forwardedCount,       \* forwardMessageToClients: its forwardedCount
    messagesForwarded     \* ProxyStats.MessagesForwarded

hubVars == <<created, hubClients, Send, closeCount, Subscriptions>>
proxyVars == <<useLocalNode, globalSubscriptions, cmd, subscribeGoroutines,
               panic>>
connVars == <<isConnected, conn, dials, subscriptions, outgoingMessages,
              currentRetries, reconnecting, attempt, delay, resubscribers,
              readPumps, writePumps, written, trackedAtFailure>>
readerVars == <<latestTrades>>
hwVars == <<hwCreated, hwClients, hwSubscriptions, hwSend, hwCloseCount,
            hwClientSubscriptions, hwHandler, hwPanic, hwLatestTrades>>
postVars == <<postRequests, nextRequestID, closedChans, postDelivering>>
tailVars == <<logFile, logPending, lastReadFiles, blocks, scanned,
              hwLastReadFiles, hwBlocks, hwScanned>>
assetVars == <<perpAssets, spotAssets, assetsByName, fetcherState>>
orderVars == <<readerTrades, readerPrices, hwReaderTrades, hwReaderPrices,
               ordersDone>>
startVars == <<startResult, logRoot, dialOK>>
serverVars == <<admitted>>
goVars == <<unsubscribeGoroutines>>
blockVars == <<block, bundleIndex, ordersSeen>>
ringVars == <<hwOrdersDone>>
callVars == <<calls>>
wireVars == <<held, wire, queued, pumpState>>
lockVars == <<statsPC, publishPC, forwardedCount, messagesForwarded>>
extraVars == <<wireVars, lockVars>>
restVars == <<goVars, blockVars, ringVars, callVars, extraVars>>
laterVars == <<tailVars, assetVars, orderVars, startVars, serverVars,
               restVars>>
moreVars == <<postVars, laterVars>>
coreVars == <<hubVars, proxyVars, connVars, readerVars, hwVars, startVars,
              serverVars, restVars>>
vars == <<hubVars, proxyVars, connVars, readerVars, hwVars, moreVars>>

(***************************************************************************)
(* Helpers on maps (functions with a finite domain).                       *)
(***************************************************************************)
MapPut(m, k, v) == [x \in DOMAIN m \cup {k} |-> IF x = k THEN v ELSE m[x]]
MapDelete(m, k) == [x \in DOMAIN m \ {k} |-> m[x]]
EmptyMap == [x \in {} |-> Nil]

Min(a, b) == IF a < b THEN a ELSE b

Idle == [pc |-> "idle"]

\* the goroutines that call Connector.PostRequest on their own, and one
\* that has made no call yet
Callers == {"g1", "g2"}
NoCall == [pc |-> "idle", requestID |-> 0, response |-> <<>>]

(***************************************************************************)
(* client.Client.SendMessage: a non-blocking send on Client.Send.          *)
(* A send on a closed channel panics, also inside a select with a default. *)
(***************************************************************************)
TrySend(q, frame) == IF Len(q) < SendCap THEN Append(q, frame) ELSE q

SendMessage(c, frame) ==
    IF closeCount[c] > 0
    THEN /\ panic' = "send on closed channel"
         /\ Send' = Send
    ELSE /\ panic' = panic
         /\ Send' = [Send EXCEPT ![c] = TrySend(Send[c], frame)]

(***************************************************************************)
(* Initial state: NewHub, NewProxy, NewConnector; Proxy.Start has          *)
(* connected the connector.                                                *)
(***************************************************************************)
\* a resubscribeAll goroutine: in its initial sleep, or replaying what is
\* left of its snapshot
Sleeping == [pc |-> "sleep", subs |-> {}]
Sending(subs) == [pc |-> "send", subs |-> subs]

InitHub ==
    /\ created = {}
    /\ hubClients = {}
    /\ Send = [c \in ClientPool |-> <<>>]
    /\ closeCount = [c \in ClientPool |-> 0]
    /\ Subscriptions = [c \in ClientPool |-> EmptyMap]

InitProxy ==
    /\ globalSubscriptions = EmptyMap
    /\ cmd = Idle
    /\ subscribeGoroutines = [p \in ClientPool \X Subs |-> 0]
    /\ panic = ""

\* NewConnector, then the Connect of Proxy.Start: the first socket, its two
\* pumps and its resubscribeAll goroutine
InitConnector ==
    /\ isConnected = TRUE
    /\ conn = 1
    /\ dials = 1
    /\ subscriptions = EmptyMap
    /\ outgoingMessages = <<>>
    /\ currentRetries = 0
    /\ reconnecting = FALSE
    /\ attempt = 0
    /\ delay = 0
    /\ resubscribers = {Sleeping}
    /\ readPumps = {1}
    /\ writePumps = 1
    /\ written = [k \in Keys |-> 0]
    /\ trackedAtFailure = {}

\* local node mode: hlConnector is nil
InitNoConnector ==
    /\ isConnected = FALSE
    /\ conn = 0
    /\ dials = 0
    /\ subscriptions = EmptyMap
    /\ outgoingMessages = <<>>
    /\ currentRetries = 0
    /\ reconnecting = FALSE
    /\ attempt = 0
    /\ delay = 0
    /\ resubscribers = {}
    /\ readPumps = {}
    /\ writePumps = 0
    /\ written = [k \in Keys |-> 0]
    /\ trackedAtFailure = {}

InitReader ==
    latestTrades = [coin \in Coins |-> <<>>]

\* HyperWS: NewHub, NewHyperWS
InitHyperWS ==
    /\ hwCreated = {}
    /\ hwClients = {}
    /\ hwSubscriptions = EmptyMap
    /\ hwSend = [c \in ClientPool |-> <<>>]
    /\ hwCloseCount = [c \in ClientPool |-> 0]
    /\ hwClientSubscriptions = [c \in ClientPool |-> EmptyMap]
    /\ hwHandler = [c \in ClientPool |-> Idle]
    /\ hwPanic = ""
    /\ hwLatestTrades = [coin \in Coins |-> <<>>]

\* NewConnector: no post request yet
InitPost ==
    /\ postRequests = EmptyMap
    /\ nextRequestID = 1
    /\ closedChans = {}
    /\ postDelivering = {}

\* NewLocalNodeReader: no file read yet; nothing on disk
InitTail ==
    /\ logFile = <<>>
    /\ logPending = <<>>
    /\ lastReadFiles = [exists |-> FALSE, pos |-> 0]
    /\ blocks = <<>>
    /\ scanned = FALSE
    /\ hwLastReadFiles = [exists |-> FALSE, pos |-> 0]
    /\ hwBlocks = <<>>
    /\ hwScanned = FALSE

\* NewAssetFetcher: three empty tables
InitAssets ==
    /\ perpAssets = EmptyMap
    /\ spotAssets = EmptyMap
    /\ assetsByName = EmptyMap
    /\ fetcherState = "new"

\* NewLocalNodeReader: no trade, no price
InitOrders ==
    /\ readerTrades = EmptyMap
    /\ readerPrices = EmptyMap
    /\ hwReaderTrades = EmptyMap
    /\ hwReaderPrices = EmptyMap
    /\ ordersDone = 0

\* NewServer: no request is being handled
InitServer ==
    admitted = {}

\* NewProxy: no call of GetStats, no publish under way, nothing forwarded
InitLocks ==
    /\ statsPC = "idle"
    /\ publishPC = "idle"
    /\ forwardedCount = 0
    /\ messagesForwarded = 0

\* NewClient: nothing received from Send, nothing written, writePump about
\* to run
InitWire ==
    /\ held = [c \in ClientPool |-> <<>>]
    /\ wire = [c \in ClientPool |-> <<>>]
    /\ queued = [c \in ClientPool |-> <<>>]
    /\ pumpState = [c \in ClientPool |-> "run"]

\* NewProxy: handleUnsubscribe has started no goroutine; the reader has
\* been handed no block
InitGo ==
    /\ unsubscribeGoroutines = [sub \in Subs |-> 0]
    /\ block = <<>>
    /\ bundleIndex = 0
    /\ ordersSeen = <<>>
    /\ hwOrdersDone = 0
    /\ calls = [g \in Callers |-> NoCall]
    /\ InitWire
    /\ InitLocks

\* Proxy.Start has returned nil: the log root was there, the dial succeeded
InitStart ==
    /\ startResult = "ok"
    /\ logRoot = TRUE
    /\ dialOK = TRUE

InitMore ==
    /\ InitPost
    /\ InitTail
    /\ InitAssets
    /\ InitOrders
    /\ InitStart
    /\ InitServer
    /\ InitGo

\* NewProxy builds the reader (local node mode) or the connector (remote mode)
Init ==
    /\ useLocalNode \in BOOLEAN
    /\ InitHub
    /\ InitProxy
    /\ IF useLocalNode THEN InitNoConnector ELSE InitConnector
    /\ InitReader
    /\ InitHyperWS
    /\ InitMore

(***************************************************************************)
(* client.ServeWS and Hub.Run.                                             *)
(***************************************************************************)
\* ServeWS: NewClient, then Hub.Run's Register case
ServeWS(c) ==
    /\ panic = ""
    /\ c \notin created
    /\ created' = created \cup {c}
    /\ hubClients' = hubClients \cup {c}
    /\ UNCHANGED <<Send, closeCount, Subscriptions, proxyVars, connVars, readerVars, hwVars, moreVars>>

\* Hub.Run's Unregister case
HubUnregister(c) ==
    IF c \in hubClients
    THEN /\ hubClients' = hubClients \ {c}
         /\ closeCount' = [closeCount EXCEPT ![c] = @ + 1]
    ELSE UNCHANGED <<hubClients, closeCount>>

\* Client.readPump ends on a read error (peer gone, frame over the size cap,
\* pong deadline) and its deferred function hands the client to Unregister;
\* Client.writePump takes what is still buffered in the closed channel and
\* ends
Unregister(c) ==
    /\ panic = ""
    /\ c \in hubClients
    /\ HubUnregister(c)
    /\ Send' = [Send EXCEPT ![c] = <<>>]
    /\ UNCHANGED <<created, Subscriptions, proxyVars, connVars, readerVars, hwVars, moreVars>>

\* Client.writePump: takes the first frame and every frame queued behind it
\* into one network write
WritePump(c) ==
    /\ panic = ""
    /\ c \in hubClients
    /\ Send[c] # <<>>
    /\ Send' = [Send EXCEPT ![c] = <<>>]
    /\ UNCHANGED <<created, hubClients, closeCount, Subscriptions, proxyVars,
                   connVars, readerVars, hwVars, moreVars>>

(***************************************************************************)
(* proxy.Proxy: the command path.  processClientMessages is one goroutine: *)
(* it takes a frame from the unbuffered Hub.ClientMessage, where the       *)
(* readPump of a client in Hub.Clients hands it over, and runs the handler *)
(* to the end before it takes the next one.  Taking the frame and the      *)
(* handler's critical section on subMu are one step; what the handler does *)
(* after Unlock is a second step.                                          *)
(***************************************************************************)
TradeFrame(coin, tid) == <<"trades", <<coin, tid>>>>
AllMidsFrame(coins) == <<"allMids", coins>>

\* LocalNodeReader.GetLatestTrades(coin, limit)
GetLatestTrades(coin, limit) ==
    IF coin \notin DOMAIN latestTrades THEN <<>>
    ELSE LET trades == latestTrades[coin]
         IN  IF limit > 0 /\ Len(trades) > limit
             THEN SubSeq(trades, Len(trades) - limit + 1, Len(trades))
             ELSE trades

\* the coins LocalNodeReader.GetLatestPrice knows: processOrders sets the
\* price of a symbol with every trade it stores
PricedCoins == {coin \in Coins : latestTrades[coin] # <<>>}

\* the frames sendInitialLocalNodeData sends for a trades subscription, each
\* with a blocking `c.Send <- messageBytes`
InitialTrades(sub) ==
    IF sub.Type = "trades" /\ sub.Coin # ""
    THEN LET trades == GetLatestTrades(sub.Coin, 5)
         IN  [i \in 1..Len(trades) |-> TradeFrame(sub.Coin, trades[i])]
    ELSE <<>>

\* the goroutines started by handleSubscribe that have not run yet
RECURSIVE Sum(_, _)
Sum(f, S) == IF S = {} THEN 0
             ELSE LET x == CHOOSE y \in S : TRUE
                  IN  f[x] + Sum(f, S \ {x})

Pending == Sum(subscribeGoroutines, DOMAIN subscribeGoroutines)

\* handleClientMessage dispatching to handleSubscribe, lines 332-380: the
\* critical section on subMu
HandleSubscribe(c, sub) ==
    /\ panic = ""
    /\ cmd = Idle
    /\ c \in hubClients
    /\ LET key == createSubscriptionKey(sub)
           exists == key \in DOMAIN globalSubscriptions
           spawn == ~exists /\ ~useLocalNode
           subInfo == IF exists THEN globalSubscriptions[key]
                      ELSE [Subscription |-> sub, Clients |-> {},
                            LastMessage |-> Nil]
       IN  /\ spawn => Pending < MaxPending
           /\ globalSubscriptions' =
                  MapPut(globalSubscriptions, key,
                         [subInfo EXCEPT !.Clients = @ \cup {c}])
           /\ subscribeGoroutines' =
                  IF spawn
                  THEN [subscribeGoroutines EXCEPT ![<<c, sub>>] = @ + 1]
                  ELSE subscribeGoroutines
           /\ cmd' = [pc |-> "subscribe", c |-> c, sub |-> sub,
                      LastMessage |-> subInfo.LastMessage]
    /\ UNCHANGED <<hubVars, useLocalNode, panic,
                   connVars, readerVars, hwVars, moreVars>>

\* handleSubscribe, lines 382-399: AddSubscription, the subscription
\* response, then the initial data
SubscribeReply ==
    /\ panic = ""
    /\ cmd.pc = "subscribe"
    /\ LET c == cmd.c
           sub == cmd.sub
           key == createSubscriptionKey(sub)
           q1 == TrySend(Send[c], SubscriptionResponse("subscribe", sub))
           q2 == IF useLocalNode /\ sub.Type = "allMids" /\ PricedCoins # {}
                 THEN TrySend(q1, AllMidsFrame(PricedCoins))
                 ELSE q1
           blocking == IF useLocalNode THEN InitialTrades(sub)
                       ELSE IF cmd.LastMessage # Nil THEN <<cmd.LastMessage>>
                       ELSE <<>>
       IN  /\ Subscriptions' = [Subscriptions EXCEPT ![c] = MapPut(@, key, sub)]
           /\ IF closeCount[c] > 0
              THEN /\ panic' = "send on closed channel"
                   /\ UNCHANGED <<Send, cmd>>
              ELSE /\ panic' = panic
                   /\ Send' = [Send EXCEPT ![c] = q2]
                   /\ cmd' = IF blocking = <<>> THEN Idle
                             ELSE [pc |-> "sending", c |-> c,
                                   frames |-> blocking]
    /\ UNCHANGED <<created, hubClients, closeCount, useLocalNode,
                   globalSubscriptions, subscribeGoroutines,
                   connVars, readerVars, hwVars, moreVars>>

\* the blocking sends `c.Send <- subInfo.LastMessage` (line 397) and
\* `c.Send <- messageBytes` (line 449): each waits for room in the queue
BlockingSend ==
    /\ panic = ""
    /\ cmd.pc = "sending"
    /\ LET c == cmd.c
       IN  IF closeCount[c] > 0
           THEN /\ panic' = "send on closed channel"
                /\ UNCHANGED <<Send, cmd>>
           ELSE /\ Len(Send[c]) < SendCap
                /\ panic' = panic
                /\ Send' = [Send EXCEPT ![c] = Append(@, Head(cmd.frames))]
                /\ cmd' = IF Tail(cmd.frames) = <<>> THEN Idle
                          ELSE [cmd EXCEPT !.frames = Tail(@)]
    /\ UNCHANGED <<created, hubClients, closeCount, Subscriptions,
                   useLocalNode, globalSubscriptions, subscribeGoroutines,
                   connVars, readerVars, hwVars, moreVars>>

\* faulty variants of RemoveClient: one forgets to delete the entry left
\* without clients, one removes nothing
RemoveClientNoPrune(registry, key, c) ==
    IF key \notin DOMAIN registry THEN registry
    ELSE [registry EXCEPT ![key].Clients = @ \ {c}]

RemoveClientNothing(registry, key, c) == registry

\* the registry after `delete(subInfo.Clients, c)` and, when that leaves
\* no client, `delete(p.globalSubscriptions, key)`
RemoveClient(registry, key, c) ==
    IF key \notin DOMAIN registry THEN registry
    ELSE IF registry[key].Clients \ {c} = {} THEN MapDelete(registry, key)
    ELSE [registry EXCEPT ![key].Clients = @ \ {c}]

\* handleUnsubscribe, lines 478-493: the critical section on subMu, what
\* it does to the registry and to the command in progress
unsubscribeLocked(c, sub) ==
    /\ panic = ""
    /\ cmd = Idle
    /\ c \in hubClients
    /\ globalSubscriptions' =
           RemoveClient(globalSubscriptions, createSubscriptionKey(sub), c)
    /\ cmd' = [pc |-> "unsubscribe", c |-> c, sub |-> sub]
    /\ UNCHANGED <<hubVars, useLocalNode, subscribeGoroutines, panic,
                   connVars, readerVars, hwVars, postVars, tailVars,
                   assetVars, orderVars, startVars, serverVars, blockVars,
                   ringVars, callVars, extraVars>>

\* handleUnsubscribe, lines 480-491: whether the critical section starts
\* the goroutine that calls hlConnector.Unsubscribe.  NewProxy (lines
\* 67-80) makes a connector exactly when useLocalNode is false
StartsUnsubscribe(c, sub) ==
    LET key == createSubscriptionKey(sub)
    IN  /\ key \in DOMAIN globalSubscriptions
        /\ globalSubscriptions[key].Clients \ {c} = {}
        /\ ~useLocalNode

\* handleClientMessage dispatching to handleUnsubscribe, lines 462-493,
\* with the connector as the environment of the proxy: the goroutine
\* started for hlConnector.Unsubscribe changes nothing in the proxy (an
\* error is only logged) and is not followed
HandleUnsubscribe(c, sub) ==
    /\ unsubscribeLocked(c, sub)
    /\ UNCHANGED goVars

\* the same with the goroutine followed
HandleUnsubscribeGo(c, sub) ==
    /\ unsubscribeLocked(c, sub)
    /\ StartsUnsubscribe(c, sub) =>
           Sum(unsubscribeGoroutines, Subs) < MaxPending
    /\ unsubscribeGoroutines' =
           IF StartsUnsubscribe(c, sub)
           THEN [unsubscribeGoroutines EXCEPT ![sub] = @ + 1]
           ELSE unsubscribeGoroutines

\* handleUnsubscribe, lines 495-504: RemoveSubscription and the
\* subscription response
UnsubscribeReply ==
    /\ panic = ""
    /\ cmd.pc = "unsubscribe"
    /\ Subscriptions' = [Subscriptions EXCEPT
                            ![cmd.c] = MapDelete(@, createSubscriptionKey(cmd.sub))]
    /\ SendMessage(cmd.c, SubscriptionResponse("unsubscribe", cmd.sub))
    /\ cmd' = Idle
    /\ UNCHANGED <<created, hubClients, closeCount, useLocalNode,
                   globalSubscriptions, subscribeGoroutines,
                   connVars, readerVars, hwVars, moreVars>>

(***************************************************************************)
(* proxy.Proxy: the publish path, forwardMessageToClients (lines 577-629). *)
(* The whole function runs under subMu.Lock.  The registry is a Go map, so *)
(* the order in which the entries are visited is arbitrary: of the entries *)
(* that hold client c, the ones visited after c's queue filled up fail.    *)
(***************************************************************************)
\* faulty variant of Matching: every entry matches every channel
MatchingAny(channel) == DOMAIN globalSubscriptions

\* line 587: the entries whose subscription type is the channel
Matching(channel) ==
    {k \in DOMAIN globalSubscriptions :
        globalSubscriptions[k].Subscription.Type = channel}

MemberKeys(c, channel) ==
    {k \in Matching(channel) : c \in globalSubscriptions[k].Clients}

Room(c) == SendCap - Len(Send[c])

\* faulty variant of Delivered: no send succeeds
DeliveredNone(c, channel) == 0

\* how many of the sends `case c.Send <- data` to c succeed
Delivered(c, channel) == Min(Cardinality(MemberKeys(c, channel)), Room(c))

\* the choices of clientsToRemove the iteration order allows
FailedChoices(channel) ==
    {failed \in [ClientPool -> SUBSET DOMAIN globalSubscriptions] :
        \A c \in ClientPool :
            /\ failed[c] \subseteq MemberKeys(c, channel)
            /\ Cardinality(failed[c]) =
                   Cardinality(MemberKeys(c, channel)) - Delivered(c, channel)}

Repeat(frame, n) == [i \in 1..n |-> frame]

\* the registry after the loop: LastMessage set on every matching entry,
\* then each client marked for removal deleted from the keys it failed on,
\* and an entry such a removal leaves without clients deleted
ForwardRegistry(channel, data, failed) ==
    LET clientsLeft(k) ==
            globalSubscriptions[k].Clients \ {c \in ClientPool : k \in failed[c]}
        kept == {k \in DOMAIN globalSubscriptions :
                    (\E c \in ClientPool : k \in failed[c])
                    => clientsLeft(k) # {}}
    IN  [k \in kept |->
            IF k \in Matching(channel)
            THEN [globalSubscriptions[k] EXCEPT !.Clients = clientsLeft(k),
                                                !.LastMessage = data]
            ELSE globalSubscriptions[k]]

forwardMessageToClients(channel, data) ==
    IF \E c \in ClientPool : MemberKeys(c, channel) # {} /\ closeCount[c] > 0
    THEN /\ panic' = "send on closed channel"
         /\ UNCHANGED <<Send, globalSubscriptions, cmd>>
    ELSE \E failed \in FailedChoices(channel) :
            /\ panic' = panic
            /\ Send' = [c \in ClientPool |->
                           Send[c] \o Repeat(data, Delivered(c, channel))]
            /\ globalSubscriptions' = ForwardRegistry(channel, data, failed)
            \* the SubscriptionInfo a running handleSubscribe holds is the
            \* entry itself: it sees the new LastMessage
            /\ cmd' = IF /\ cmd.pc = "subscribe"
                         /\ createSubscriptionKey(cmd.sub) \in Matching(channel)
                      THEN [cmd EXCEPT !.LastMessage = data]
                      ELSE cmd

\* handleHyperliquidMessage, lines 553-574: a frame read from the upstream
\* feed by the connector's readPump
HandleHyperliquidMessage(frame) ==
    /\ panic = ""
    /\ ~useLocalNode
    /\ readPumps # {}
    /\ IF frame[1] \in {"subscriptionResponse", "post"}
       THEN UNCHANGED <<Send, globalSubscriptions, cmd, panic>>
       ELSE forwardMessageToClients(frame[1], frame)
    /\ UNCHANGED <<created, hubClients, closeCount, Subscriptions,
                   useLocalNode, subscribeGoroutines, connVars, readerVars, hwVars, moreVars>>

\* generateAllMidsFromLocalNode, lines 166-222
GenerateAllMids ==
    /\ panic = ""
    /\ useLocalNode
    /\ \E k \in Matching("allMids") : globalSubscriptions[k].Clients # {}
    /\ PricedCoins # {}
    /\ forwardMessageToClients("allMids", AllMidsFrame(PricedCoins))
    /\ UNCHANGED <<created, hubClients, closeCount, Subscriptions,
                   useLocalNode, subscribeGoroutines, connVars, readerVars, hwVars, moreVars>>

\* generateTradesFromLocalNode, lines 225-275: the turn of its loop for one
\* coin that has subscribers
GenerateTrades(coin) ==
    /\ panic = ""
    /\ useLocalNode
    /\ \E k \in Matching("trades") :
           /\ globalSubscriptions[k].Subscription.Coin = coin
           /\ globalSubscriptions[k].Clients # {}
    /\ LET trades == GetLatestTrades(coin, 10)
       IN  /\ trades # <<>>
           /\ forwardMessageToClients("trades",
                                      TradeFrame(coin, trades[Len(trades)]))
    /\ UNCHANGED <<created, hubClients, closeCount, Subscriptions,
                   useLocalNode, subscribeGoroutines, connVars, readerVars, hwVars, moreVars>>

\* LocalNodeReader.processOrders storing one synthetic trade of a coin
ProcessOrders(coin) ==
    /\ panic = ""
    /\ useLocalNode
    /\ Len(latestTrades[coin]) < MaxTrades
    /\ latestTrades' = [latestTrades EXCEPT
                           ![coin] = Append(@, Len(@) + 1)]
    /\ UNCHANGED <<hubVars, proxyVars, connVars, hwVars, moreVars>>

(***************************************************************************)
(* hyperliquid.Connector.                                                  *)
(***************************************************************************)
\* Connector.sendMessage: the frame goes to outgoingMessages; with the queue
\* full the 5 s timer fires and the call returns "send timeout"
SendTimeout == Len(outgoingMessages) >= OutCap

sendMessage(frame) ==
    outgoingMessages' = IF SendTimeout THEN outgoingMessages
                        ELSE Append(outgoingMessages, frame)

\* Connector.Subscribe, lines 444-464: whether it returns an error ...
SubscribeFails == ~isConnected \/ SendTimeout

\* ... and what it does
Subscribe(sub) ==
    IF ~isConnected
    THEN UNCHANGED <<subscriptions, outgoingMessages>>
    ELSE /\ subscriptions' =
                MapPut(subscriptions, createSubscriptionKey(sub), sub)
         /\ sendMessage(<<"subscribe", createSubscriptionKey(sub)>>)

\* Connector.Unsubscribe, lines 467-487
Unsubscribe(sub) ==
    IF ~isConnected
    THEN UNCHANGED <<subscriptions, outgoingMessages>>
    ELSE /\ subscriptions' =
                MapDelete(subscriptions, createSubscriptionKey(sub))
         /\ sendMessage(<<"unsubscribe", createSubscriptionKey(sub)>>)

\* Connector.handleDisconnect, lines 704-724
handleDisconnect ==
    /\ isConnected' = FALSE
    /\ conn' = 0
    /\ reconnecting' = (reconnecting \/ isConnected)
    /\ trackedAtFailure' = IF isConnected THEN DOMAIN subscriptions
                           ELSE trackedAtFailure

\* Connector.readPump, lines 537-574: ReadMessage fails, because the socket
\* broke or because handleDisconnect closed it; the pump ends
ConnReadPumpError(id) ==
    /\ panic = ""
    /\ id \in readPumps
    /\ readPumps' = readPumps \ {id}
    /\ handleDisconnect
    /\ UNCHANGED <<hubVars, proxyVars, readerVars, hwVars, moreVars, dials, subscriptions,
                   outgoingMessages, currentRetries, attempt, delay, resubscribers,
                   writePumps, written>>

\* Connector.writePump, lines 583-598: one frame taken from
\* outgoingMessages; it is dropped and the pump ends when the connector is
\* not connected, otherwise it is written to the socket
ConnWritePump ==
    /\ panic = ""
    /\ writePumps > 0
    /\ outgoingMessages # <<>>
    /\ outgoingMessages' = Tail(outgoingMessages)
    /\ LET frame == Head(outgoingMessages)
       IN  IF ~isConnected \/ conn = 0
           THEN /\ writePumps' = writePumps - 1
                /\ written' = written
           ELSE /\ writePumps' = writePumps
                /\ written' =
                       IF frame[1] = "subscribe"
                       THEN [written EXCEPT
                                ![frame[2]] = Min(@ + 1, MaxWritten)]
                       ELSE IF frame[1] = "unsubscribe"
                       THEN [written EXCEPT ![frame[2]] = 0]
                       ELSE written
    /\ UNCHANGED <<hubVars, proxyVars, readerVars, hwVars, moreVars, isConnected, conn, dials,
                   subscriptions, currentRetries, attempt, delay, reconnecting,
                   resubscribers, readPumps, trackedAtFailure>>

\* Connector.writePump: WriteMessage fails (lines 594-598, 613-617), for a
\* queued frame or for the heartbeat; the pump ends
ConnWritePumpError ==
    /\ panic = ""
    /\ writePumps > 0
    /\ isConnected
    /\ conn # 0
    /\ writePumps' = writePumps - 1
    /\ \E fromQueue \in BOOLEAN :
           outgoingMessages' =
               IF fromQueue /\ outgoingMessages # <<>>
               THEN Tail(outgoingMessages) ELSE outgoingMessages
    /\ handleDisconnect
    /\ UNCHANGED <<hubVars, proxyVars, readerVars, hwVars, moreVars, dials, subscriptions,
                   currentRetries, attempt, delay, resubscribers, readPumps, written>>

\* Connector.writePump, lines 600-608: the ticker fires while the connector
\* is not connected; the pump ends
ConnWritePumpTick ==
    /\ panic = ""
    /\ writePumps > 0
    /\ ~isConnected \/ conn = 0
    /\ writePumps' = writePumps - 1
    /\ UNCHANGED <<hubVars, proxyVars, readerVars, hwVars, moreVars, isConnected, conn, dials,
                   subscriptions, outgoingMessages, currentRetries, attempt, delay,
                   reconnecting, resubscribers, readPumps, written,
                   trackedAtFailure>>

\* faulty variant of reconnectDelay: the same wait before every attempt
reconnectDelayConstant(retries) == retryInterval

\* Connector.attemptReconnect, line 731: the wait before Connect
reconnectDelay(retries) == retries * retryInterval

\* Connector.attemptReconnect, lines 728-737: a turn of the loop begins,
\* currentRetries is incremented and the goroutine sleeps for `delay`
AttemptReconnectSleep ==
    /\ panic = ""
    /\ reconnecting
    /\ delay = 0
    /\ currentRetries < maxRetries
    /\ currentRetries' = currentRetries + 1
    /\ attempt' = attempt + 1
    /\ delay' = reconnectDelay(currentRetries + 1)
    /\ UNCHANGED <<hubVars, proxyVars, readerVars, hwVars, moreVars, isConnected, conn, dials,
                   subscriptions, outgoingMessages, reconnecting,
                   resubscribers, readPumps, writePumps, written,
                   trackedAtFailure>>

\* Connector.attemptReconnect, lines 739-743: after the sleep, Connect
\* fails; the turn is over
AttemptReconnectFails ==
    /\ panic = ""
    /\ reconnecting
    /\ delay > 0
    /\ delay' = 0
    /\ UNCHANGED <<hubVars, proxyVars, readerVars, hwVars, moreVars, isConnected, conn, dials,
                   subscriptions, outgoingMessages, currentRetries,
                   reconnecting, attempt, resubscribers, readPumps,
                   writePumps, written, trackedAtFailure>>

\* Connector.attemptReconnect, lines 739-747: after the sleep, Connect
\* (lines 391-422) succeeds: a new socket, two new pumps, a new
\* resubscribeAll; the goroutine returns
AttemptReconnectConnects ==
    /\ panic = ""
    /\ reconnecting
    /\ delay > 0
    /\ dials < MaxDials
    /\ dials' = dials + 1
    /\ conn' = dials + 1
    /\ isConnected' = TRUE
    /\ currentRetries' = 0
    /\ reconnecting' = FALSE
    /\ attempt' = 0
    /\ delay' = 0
    /\ readPumps' = readPumps \cup {dials + 1}
    /\ writePumps' = writePumps + 1
    /\ resubscribers' = resubscribers \cup {Sleeping}
    /\ written' = [k \in Keys |-> 0]
    /\ UNCHANGED <<hubVars, proxyVars, readerVars, hwVars, moreVars, subscriptions,
                   outgoingMessages, trackedAtFailure>>

\* Connector.attemptReconnect, lines 728 and 750: the loop ends after
\* maxRetries attempts; the goroutine returns
AttemptReconnectGivesUp ==
    /\ panic = ""
    /\ reconnecting
    /\ delay = 0
    /\ currentRetries >= maxRetries
    /\ reconnecting' = FALSE
    /\ attempt' = 0
    /\ UNCHANGED <<hubVars, proxyVars, readerVars, hwVars, moreVars, isConnected, conn, dials,
                   subscriptions, outgoingMessages, currentRetries, delay,
                   resubscribers, readPumps, writePumps, written,
                   trackedAtFailure>>

\* Connector.resubscribeAll, lines 754-763: after its sleep, the snapshot
\* of the tracked subscriptions
ResubscribeSnapshot ==
    /\ panic = ""
    /\ Sleeping \in resubscribers
    /\ LET subs == {subscriptions[k] : k \in DOMAIN subscriptions}
       IN  resubscribers' =
               (resubscribers \ {Sleeping}) \cup
               (IF subs = {} THEN {} ELSE {Sending(subs)})
    /\ UNCHANGED <<hubVars, proxyVars, readerVars, hwVars, moreVars, isConnected, conn, dials,
                   subscriptions, outgoingMessages, currentRetries, attempt, delay,
                   reconnecting, readPumps, writePumps, written,
                   trackedAtFailure>>

\* Connector.resubscribeAll, lines 765-774: Subscribe for one subscription
\* of the snapshot (an error is only logged)
ResubscribeNext(subs, sub) ==
    /\ panic = ""
    /\ Sending(subs) \in resubscribers
    /\ sub \in subs
    /\ Subscribe(sub)
    /\ resubscribers' =
           (resubscribers \ {Sending(subs)}) \cup
           (IF subs \ {sub} = {} THEN {} ELSE {Sending(subs \ {sub})})
    /\ UNCHANGED <<hubVars, proxyVars, readerVars, hwVars, moreVars, isConnected, conn, dials,
                   currentRetries, attempt, delay, reconnecting, readPumps, writePumps,
                   written, trackedAtFailure>>

(***************************************************************************)
(* The callers of the connector.  Under SpecConnector the connector runs   *)
(* on its own and CallSubscribe / CallUnsubscribe are the calls of         *)
(* Subscribe and Unsubscribe the proxy's goroutines make.  The proxy asks  *)
(* for a key when it creates the registry entry of the key: the calls      *)
(* considered here subscribe a key the connector does not track.           *)
(***************************************************************************)
CallSubscribe(sub) ==
    /\ panic = ""
    /\ createSubscriptionKey(sub) \notin DOMAIN subscriptions
    /\ Subscribe(sub)
    /\ UNCHANGED <<hubVars, proxyVars, readerVars, hwVars, moreVars, isConnected, conn, dials,
                   currentRetries, attempt, delay, reconnecting, resubscribers, readPumps,
                   writePumps, written, trackedAtFailure>>

CallUnsubscribe(sub) ==
    /\ panic = ""
    /\ Unsubscribe(sub)
    /\ UNCHANGED <<hubVars, proxyVars, readerVars, hwVars, moreVars, isConnected, conn, dials,
                   currentRetries, attempt, delay, reconnecting, resubscribers, readPumps,
                   writePumps, written, trackedAtFailure>>

NextConnector ==
    \/ \E sub \in Subs : CallSubscribe(sub)
    \/ \E sub \in Subs : CallUnsubscribe(sub)
    \/ \E id \in 1..MaxDials : ConnReadPumpError(id)
    \/ ConnWritePump
    \/ ConnWritePumpError
    \/ ConnWritePumpTick
    \/ AttemptReconnectSleep
    \/ AttemptReconnectFails
    \/ AttemptReconnectConnects
    \/ AttemptReconnectGivesUp
    \/ ResubscribeSnapshot
    \/ \E subs \in SUBSET Subs, sub \in Subs : ResubscribeNext(subs, sub)

InitRemote == Init /\ ~useLocalNode

SpecConnector == InitRemote /\ [][NextConnector]_vars

\* the connector with nothing queued: the socket that breaks, the pumps
\* that end, and attemptReconnect
NextReconnect ==
    \/ \E id \in 1..MaxDials : ConnReadPumpError(id)
    \/ ConnWritePumpError
    \/ ConnWritePumpTick
    \/ AttemptReconnectSleep
    \/ AttemptReconnectFails
    \/ AttemptReconnectConnects
    \/ AttemptReconnectGivesUp
    \/ ResubscribeSnapshot

SpecReconnect == InitRemote /\ [][NextReconnect]_vars

(***************************************************************************)
(* proxy.Proxy: the goroutine handleSubscribe starts for the upstream      *)
(* call.  For the proxy the connector is its environment: Subscribe        *)
(* returns nil or an error (not connected, lines 448-450; send timeout,    *)
(* lines 689-701), as SpecConnector shows it can at any moment.            *)
(***************************************************************************)
\* handleSubscribe, lines 362-373: Subscribe and, when it fails, the error
\* reply to the client and the rollback of the registry entry
SubscribeGoroutine(c, sub) ==
    /\ panic = ""
    /\ subscribeGoroutines[<<c, sub>>] > 0
    /\ subscribeGoroutines' = [subscribeGoroutines EXCEPT ![<<c, sub>>] = @ - 1]
    /\ \E err \in BOOLEAN :
           IF err
           THEN /\ SendMessage(c, ErrorFrame("Failed to subscribe"))
                /\ globalSubscriptions' =
                       MapDelete(globalSubscriptions,
                                 createSubscriptionKey(sub))
           ELSE UNCHANGED <<Send, panic, globalSubscriptions>>
    /\ UNCHANGED <<created, hubClients, closeCount, Subscriptions,
                   useLocalNode, cmd, connVars,
                   readerVars, hwVars, moreVars>>

(***************************************************************************)
(* The proxy: hub, sessions, command path and publish path.  Spec is the   *)
(* proxy in local node mode, SpecRemote the proxy in remote mode.          *)
(***************************************************************************)
NextSessions ==
    \/ \E c \in ClientPool : ServeWS(c)
    \/ \E c \in ClientPool : Unregister(c)
    \/ \E c \in ClientPool : WritePump(c)
    \/ \E c \in ClientPool, sub \in Subs : HandleSubscribe(c, sub)
    \/ SubscribeReply
    \/ BlockingSend
    \/ \E c \in ClientPool, sub \in Subs : HandleUnsubscribe(c, sub)
    \/ UnsubscribeReply

Next ==
    \/ NextSessions
    \/ GenerateAllMids
    \/ \E coin \in Coins : GenerateTrades(coin)
    \/ \E coin \in Coins : ProcessOrders(coin)

InitLocal == Init /\ useLocalNode

Spec == InitLocal /\ [][Next]_vars

NextRemote ==
    \/ NextSessions
    \/ \E c \in ClientPool, sub \in Subs : SubscribeGoroutine(c, sub)
    \/ \E frame \in UpstreamFrames : HandleHyperliquidMessage(frame)

SpecRemote == InitRemote /\ [][NextRemote]_vars

(***************************************************************************)
(* The proxy in remote mode with sessions that subscribe and the frames of *)
(* the upstream feed: no session leaves, none unsubscribes.                *)
(***************************************************************************)
NextPublish ==
    \/ \E c \in ClientPool : ServeWS(c)
    \/ \E c \in ClientPool : WritePump(c)
    \/ \E c \in ClientPool, sub \in Subs : HandleSubscribe(c, sub)
    \/ SubscribeReply
    \/ BlockingSend
    \/ \E c \in ClientPool, sub \in Subs : SubscribeGoroutine(c, sub)
    \/ \E frame \in UpstreamFrames : HandleHyperliquidMessage(frame)

SpecPublish == InitRemote /\ [][NextPublish]_vars

(***************************************************************************)
(* The proxy in remote mode with nothing but commands: sessions that       *)
(* subscribe and unsubscribe, and the upstream calls this starts.          *)
(***************************************************************************)
NextCommands ==
    \/ \E c \in ClientPool : ServeWS(c)
    \/ \E c \in ClientPool : WritePump(c)
    \/ \E c \in ClientPool, sub \in Subs : HandleSubscribe(c, sub)
    \/ SubscribeReply
    \/ \E c \in ClientPool, sub \in Subs : HandleUnsubscribe(c, sub)
    \/ UnsubscribeReply
    \/ \E c \in ClientPool, sub \in Subs : SubscribeGoroutine(c, sub)

SpecCommands == InitRemote /\ [][NextCommands]_vars

(***************************************************************************)
(* The proxy with its connector: the commands of the sessions, the         *)
(* goroutines they start for Connector.Subscribe and Unsubscribe, and the  *)
(* connection to the upstream that breaks and comes back.  In local node   *)
(* mode NewProxy makes no connector, so none of its goroutines runs.  The  *)
(* sessions ask for one subscription, the trades of ETH, and their queues  *)
(* are not drained.                                                        *)
(***************************************************************************)
\* handleSubscribe, lines 362-373, the goroutine calling the connector:
\* Subscribe and, when it returns an error, the error reply and the
\* rollback of the registry entry
SubscribeUpstream(c, sub) ==
    /\ panic = ""
    /\ subscribeGoroutines[<<c, sub>>] > 0
    /\ subscribeGoroutines' = [subscribeGoroutines EXCEPT ![<<c, sub>>] = @ - 1]
    /\ Subscribe(sub)
    /\ IF SubscribeFails
       THEN /\ SendMessage(c, ErrorFrame("Failed to subscribe"))
            /\ globalSubscriptions' =
                   MapDelete(globalSubscriptions, createSubscriptionKey(sub))
       ELSE UNCHANGED <<Send, panic, globalSubscriptions>>
    /\ UNCHANGED <<created, hubClients, closeCount, Subscriptions,
                   useLocalNode, cmd, isConnected, conn, dials,
                   currentRetries, attempt, delay, reconnecting, resubscribers, readPumps,
                   writePumps, written, trackedAtFailure,
                   readerVars, hwVars, moreVars>>

\* handleUnsubscribe, lines 484-490, the goroutine calling the connector:
\* Unsubscribe, whose error is only logged
UnsubscribeUpstream(sub) ==
    /\ panic = ""
    /\ unsubscribeGoroutines[sub] > 0
    /\ unsubscribeGoroutines' = [unsubscribeGoroutines EXCEPT ![sub] = @ - 1]
    /\ Unsubscribe(sub)
    /\ UNCHANGED <<hubVars, proxyVars, isConnected, conn, dials,
                   currentRetries, attempt, delay, reconnecting, resubscribers, readPumps,
                   writePumps, written, trackedAtFailure,
                   readerVars, hwVars, postVars, tailVars, assetVars,
                   orderVars, startVars, serverVars, blockVars, ringVars,
                   callVars, extraVars>>

NextUpstream ==
    \/ \E c \in ClientPool : ServeWS(c)
    \/ \E c \in ClientPool : HandleSubscribe(c, TradesETHSub)
    \/ SubscribeReply
    \/ \E c \in ClientPool : HandleUnsubscribeGo(c, TradesETHSub)
    \/ UnsubscribeReply
    \/ \E c \in ClientPool : SubscribeUpstream(c, TradesETHSub)
    \/ UnsubscribeUpstream(TradesETHSub)
    \/ ~useLocalNode /\ \E id \in 1..MaxDials : ConnReadPumpError(id)
    \/ ~useLocalNode /\ ConnWritePump
    \/ ~useLocalNode /\ AttemptReconnectSleep
    \/ ~useLocalNode /\ AttemptReconnectConnects

SpecUpstream == Init /\ [][NextUpstream]_vars

(***************************************************************************)
(* proxy.Proxy: frames that are not a subscribe or an unsubscribe.         *)
(* A downstream frame is what json.Unmarshal makes of it: whether it       *)
(* parsed, its method, and whether subscription, request and id are there. *)
(***************************************************************************)
WSMessage(valid, method, hasSub, hasRequest, hasID) ==
    [Valid |-> valid, Method |-> method, HasSubscription |-> hasSub,
     HasRequest |-> hasRequest, HasID |-> hasID]

\* the malformed frames clients send
MalformedFrames ==
    {WSMessage(FALSE, "", FALSE, FALSE, FALSE),
     WSMessage(TRUE, "cancel", FALSE, FALSE, FALSE),
     WSMessage(TRUE, "subscribe", FALSE, FALSE, FALSE),
     WSMessage(TRUE, "unsubscribe", FALSE, FALSE, FALSE),
     WSMessage(TRUE, "post", FALSE, FALSE, TRUE),
     WSMessage(TRUE, "post", FALSE, TRUE, FALSE)}

PostFrame == WSMessage(TRUE, "post", FALSE, TRUE, TRUE)

\* the message of the error handleClientMessage and the handler it calls
\* answer a frame with before they touch anything, "" when there is none
MalformedError(frame) ==
    IF ~frame.Valid THEN "Invalid message format"
    ELSE IF frame.Method \in {"subscribe", "unsubscribe"}
    THEN IF ~frame.HasSubscription THEN "Missing subscription details"
         ELSE ""
    ELSE IF frame.Method = "post"
    THEN IF ~frame.HasRequest \/ ~frame.HasID
         THEN "Invalid POST request format" ELSE ""
    ELSE "Unknown method: " \o frame.Method

\* Client.handleMessage of HyperWS, lines 205-221: the message of the error
\* it answers a frame with, "" when there is none; it knows no post method
hwMalformedError(frame) ==
    IF ~frame.Valid THEN "Format de message invalide"
    ELSE IF frame.Method \in {"subscribe", "unsubscribe"}
    THEN IF ~frame.HasSubscription THEN "Details de souscription manquants"
         ELSE ""
    ELSE "Methode inconnue: " \o frame.Method

\* types.PostResponse: what the upstream feed answers the request id with
PostResponse(id) == <<"response", id>>

\* sendPostErrorToClient's frame
PostErrorFrameOf(id, msg) == <<"post", <<"error", msg>>, id>>
\* the id the sessions put in their post frames, where the id is not what
\* is looked at, and the error frame for it
PostID == 7
PostErrorFrame(msg) == PostErrorFrameOf(PostID, msg)
\* the ids post frames come with when the id is looked at: one that the
\* connector assigns too, one that it does not
PostIDs == {1, PostID}
\* the frame handlePostRequest sends for a response
PostResponseFrame(response) == <<"post", response>>

\* faulty variant of Replying: the reply goes to another client
ReplyingOther(c, frame) ==
    [pc |-> "reply", c |-> CHOOSE d \in ClientPool : d # c, frame |-> frame]

\* the handler is about to call c.SendMessage(frame) and return
Replying(c, frame) == [pc |-> "reply", c |-> c, frame |-> frame]

\* handleClientMessage, lines 308-329, with a malformed frame: the handler
\* gets as far as sendErrorToClient
HandleMalformed(c, frame) ==
    /\ panic = ""
    /\ cmd = Idle
    /\ c \in hubClients
    /\ MalformedError(frame) # ""
    /\ cmd' = Replying(c, ErrorFrame(MalformedError(frame)))
    /\ UNCHANGED <<hubVars, useLocalNode, globalSubscriptions,
                   subscribeGoroutines, panic, connVars, readerVars,
                   hwVars, moreVars>>

\* sendErrorToClient, sendPostErrorToClient and the c.SendMessage of
\* handlePostRequest: the handler's last statement
Reply ==
    /\ panic = ""
    /\ cmd.pc = "reply"
    /\ SendMessage(cmd.c, cmd.frame)
    /\ cmd' = Idle
    /\ UNCHANGED <<created, hubClients, closeCount, Subscriptions,
                   useLocalNode, globalSubscriptions, subscribeGoroutines,
                   connVars, readerVars, hwVars, moreVars>>

(***************************************************************************)
(* Connector.PostRequest (lines 490-534), called by handlePostRequest on   *)
(* the goroutine of processClientMessages.                                 *)
(***************************************************************************)
\* faulty variant of PostReturn: the slot stays in the map
PostReturnLeak(id) ==
    /\ postRequests' = postRequests
    /\ closedChans' = closedChans \cup {id}

\* the deferred function of PostRequest: the slot is deleted and its
\* channel closed
PostReturn(id) ==
    /\ postRequests' = MapDelete(postRequests, id)
    /\ closedChans' = closedChans \cup {id}

\* faulty variant of nextIDAfter: the counter is not advanced
nextIDSame(id) == id

\* PostRequest, line 498: `c.nextRequestID++`
nextIDAfter(id) == id + 1

\* faulty variant of PostUnsupported: local node mode forwards the request
PostUnsupportedNever == FALSE

\* handlePostRequest, lines 522-526: no post request in local node mode
PostUnsupported == useLocalNode

\* handlePostRequest, lines 508-535, with a well-formed post frame, up to
\* the slot PostRequest creates
HandlePostRequestID(c, id) ==
    /\ panic = ""
    /\ cmd = Idle
    /\ c \in hubClients
    /\ IF PostUnsupported
       THEN /\ cmd' = Replying(c, PostErrorFrameOf(id,
                         "POST requests not supported in local node mode"))
            /\ UNCHANGED <<postRequests, nextRequestID>>
       ELSE IF ~isConnected
       THEN /\ cmd' = Replying(c, PostErrorFrameOf(id,
                         "not connected to Hyperliquid"))
            /\ UNCHANGED <<postRequests, nextRequestID>>
       ELSE /\ nextRequestID <= MaxRequests
            /\ postRequests' = MapPut(postRequests, nextRequestID, <<>>)
            /\ nextRequestID' = nextIDAfter(nextRequestID)
            /\ cmd' = [pc |-> "postSend", c |-> c,
                       requestID |-> nextRequestID, id |-> id]
    /\ UNCHANGED <<hubVars, useLocalNode, globalSubscriptions,
                   subscribeGoroutines, panic, connVars, readerVars,
                   hwVars, laterVars, closedChans, postDelivering>>

\* the same for a post frame with the id the old specifications use
HandlePostRequest(c) == HandlePostRequestID(c, PostID)

\* PostRequest, lines 514-526: sendMessage; on its timeout the call returns
PostSendMessage ==
    /\ panic = ""
    /\ cmd.pc = "postSend"
    /\ sendMessage(<<"post", cmd.requestID>>)
    /\ IF SendTimeout
       THEN /\ PostReturn(cmd.requestID)
            /\ cmd' = Replying(cmd.c,
                               PostErrorFrameOf(cmd.id, "send timeout"))
       ELSE /\ cmd' = [cmd EXCEPT !.pc = "postWait"]
            /\ UNCHANGED <<postRequests, closedChans>>
    /\ UNCHANGED <<hubVars, useLocalNode, globalSubscriptions,
                   subscribeGoroutines, panic, readerVars, hwVars, laterVars,
                   isConnected, conn, dials, subscriptions, currentRetries, attempt, delay,
                   reconnecting, resubscribers, readPumps, writePumps,
                   written, trackedAtFailure, nextRequestID, postDelivering>>

\* PostRequest, lines 529-531: the response is taken from the channel
PostReceive ==
    /\ panic = ""
    /\ cmd.pc = "postWait"
    /\ postRequests[cmd.requestID] # <<>>
    /\ PostReturn(cmd.requestID)
    /\ cmd' = Replying(cmd.c,
                       PostResponseFrame(Head(postRequests[cmd.requestID])))
    /\ UNCHANGED <<hubVars, useLocalNode, globalSubscriptions,
                   subscribeGoroutines, panic, connVars, readerVars,
                   hwVars, laterVars, nextRequestID, postDelivering>>

\* PostRequest, lines 532-533: the 30 s timer fires
PostTimeout ==
    /\ panic = ""
    /\ cmd.pc = "postWait"
    /\ PostReturn(cmd.requestID)
    /\ cmd' = Replying(cmd.c, PostErrorFrameOf(cmd.id, "request timeout"))
    /\ UNCHANGED <<hubVars, useLocalNode, globalSubscriptions,
                   subscribeGoroutines, panic, connVars, readerVars,
                   hwVars, laterVars, nextRequestID, postDelivering>>

\* Connector.processMessage with a frame of channel "post" and the id, then
\* handlePostResponse, lines 660-671: the lookup under postMu
HandlePostResponse(id) ==
    /\ panic = ""
    /\ ~useLocalNode
    /\ readPumps # {}
    /\ postDelivering = {}
    /\ id \in DOMAIN postRequests
    /\ postDelivering' = {id}
    /\ UNCHANGED <<hubVars, proxyVars, connVars, readerVars, hwVars, laterVars,
                   postRequests, nextRequestID, closedChans>>

\* handlePostResponse, lines 680-685: the non-blocking send on the channel
\* it looked up; the channel is closed when the call has returned meanwhile
PostResponseSend(id) ==
    /\ panic = ""
    /\ id \in postDelivering
    /\ postDelivering' = {}
    /\ IF id \in closedChans
       THEN /\ panic' = "send on closed channel"
            /\ UNCHANGED postRequests
       ELSE /\ panic' = panic
            /\ postRequests' =
                   IF postRequests[id] = <<>>
                   THEN [postRequests EXCEPT ![id] = <<PostResponse(id)>>]
                   ELSE postRequests
    /\ UNCHANGED <<hubVars, useLocalNode, globalSubscriptions, cmd,
                   subscribeGoroutines, connVars, readerVars, hwVars, laterVars,
                   nextRequestID, closedChans>>

\* the proxy in remote mode: commands and malformed frames
NextMalformed ==
    \/ \E c \in ClientPool : ServeWS(c)
    \/ \E c \in ClientPool : Unregister(c)
    \/ \E c \in ClientPool : WritePump(c)
    \/ \E c \in ClientPool, sub \in Subs : HandleSubscribe(c, sub)
    \/ SubscribeReply
    \/ \E c \in ClientPool, sub \in Subs : SubscribeGoroutine(c, sub)
    \/ \E c \in ClientPool, sub \in Subs : HandleUnsubscribe(c, sub)
    \/ UnsubscribeReply
    \/ \E c \in ClientPool, frame \in MalformedFrames :
           HandleMalformed(c, frame)
    \/ Reply

SpecMalformed == InitRemote /\ [][NextMalformed]_vars

\* PostRequest called by goroutine g, lines 490-503: with the connector
\* connected, the id is taken, the counter advanced and the slot created in
\* one critical section of postMu
PostRequestLock(g) ==
    /\ panic = ""
    /\ calls[g].pc = "idle"
    /\ isConnected
    /\ nextRequestID <= MaxRequests
    /\ postRequests' = MapPut(postRequests, nextRequestID, <<>>)
    /\ nextRequestID' = nextIDAfter(nextRequestID)
    /\ calls' = [calls EXCEPT ![g] = [pc |-> "send",
                                      requestID |-> nextRequestID,
                                      response |-> <<>>]]
    /\ UNCHANGED <<hubVars, proxyVars, connVars, readerVars, hwVars,
                   closedChans, postDelivering, tailVars, assetVars,
                   orderVars, startVars, serverVars, goVars, blockVars,
                   ringVars, extraVars>>

\* PostRequest, lines 514-526: sendMessage; on its timeout the call
\* returns through the deferred function
PostRequestSend(g) ==
    /\ panic = ""
    /\ calls[g].pc = "send"
    /\ sendMessage(<<"post", calls[g].requestID>>)
    /\ IF SendTimeout
       THEN /\ PostReturn(calls[g].requestID)
            /\ calls' = [calls EXCEPT
                            ![g].pc = "idle",
                            ![g].response = <<"error", "send timeout">>]
       ELSE /\ calls' = [calls EXCEPT ![g].pc = "wait"]
            /\ UNCHANGED <<postRequests, closedChans>>
    /\ UNCHANGED <<hubVars, proxyVars, readerVars, hwVars, isConnected,
                   conn, dials, subscriptions, currentRetries, attempt,
                   delay, reconnecting, resubscribers, readPumps,
                   writePumps, written, trackedAtFailure, nextRequestID,
                   postDelivering, tailVars, assetVars, orderVars,
                   startVars, serverVars, goVars, blockVars, ringVars,
                   extraVars>>

\* PostRequest, lines 529-531: the response is taken from the channel of
\* the call's own slot
PostRequestReceive(g) ==
    /\ panic = ""
    /\ calls[g].pc = "wait"
    /\ postRequests[calls[g].requestID] # <<>>
    /\ PostReturn(calls[g].requestID)
    /\ calls' = [calls EXCEPT
                    ![g].pc = "idle",
                    ![g].response = Head(postRequests[calls[g].requestID])]
    /\ UNCHANGED <<hubVars, proxyVars, connVars, readerVars, hwVars,
                   nextRequestID, postDelivering, tailVars, assetVars,
                   orderVars, startVars, serverVars, goVars, blockVars,
                   ringVars, extraVars>>

\* PostRequest, lines 532-533: the 30 s timer fires
PostRequestTimeout(g) ==
    /\ panic = ""
    /\ calls[g].pc = "wait"
    /\ PostReturn(calls[g].requestID)
    /\ calls' = [calls EXCEPT
                    ![g].pc = "idle",
                    ![g].response = <<"error", "request timeout">>]
    /\ UNCHANGED <<hubVars, proxyVars, connVars, readerVars, hwVars,
                   nextRequestID, postDelivering, tailVars, assetVars,
                   orderVars, startVars, serverVars, goVars, blockVars,
                   ringVars, extraVars>>

\* the connector with goroutines that call PostRequest at the same time,
\* its writePump and the responses of the upstream
NextCalls ==
    \/ \E g \in Callers : PostRequestLock(g)
    \/ \E g \in Callers : PostRequestSend(g)
    \/ \E g \in Callers : PostRequestReceive(g)
    \/ \E g \in Callers : PostRequestTimeout(g)
    \/ ConnWritePump
    \/ \E id \in 1..MaxRequests : HandlePostResponse(id)
    \/ \E id \in 1..MaxRequests : PostResponseSend(id)

SpecCalls == InitRemote /\ [][NextCalls]_vars

\* the proxy in remote mode: post requests, next to the subscribe and
\* unsubscribe commands, over a connector that can lose its connection
NextPost ==
    \/ \E c \in ClientPool : ServeWS(c)
    \/ \E c \in ClientPool : WritePump(c)
    \/ \E c \in ClientPool : HandleSubscribe(c, AllMidsSub)
    \/ SubscribeReply
    \/ \E c \in ClientPool : SubscribeGoroutine(c, AllMidsSub)
    \/ \E c \in ClientPool : HandleUnsubscribe(c, AllMidsSub)
    \/ UnsubscribeReply
    \/ \E c \in ClientPool : HandlePostRequest(c)
    \/ PostSendMessage
    \/ PostReceive
    \/ PostTimeout
    \/ \E id \in 1..MaxRequests : HandlePostResponse(id)
    \/ \E id \in 1..MaxRequests : PostResponseSend(id)
    \/ Reply
    \/ ConnWritePump
    \/ \E id \in 1..MaxDials : ConnReadPumpError(id)

SpecPost == InitRemote /\ [][NextPost]_vars

\* the timers of PostRequest fire: sendMessage gives up after 5 s, the wait
\* for the response after 30 s
SpecPostFair ==
    SpecPost /\ WF_vars(PostSendMessage) /\ WF_vars(PostTimeout)

\* the proxy in either mode: post frames with the ids of PostIDs, the
\* connector's writePump and the responses of the upstream
NextPostIDs ==
    \/ \E c \in ClientPool : ServeWS(c)
    \/ \E c \in ClientPool : WritePump(c)
    \/ \E c \in ClientPool, id \in PostIDs : HandlePostRequestID(c, id)
    \/ PostSendMessage
    \/ PostReceive
    \/ PostTimeout
    \/ Reply
    \/ ConnWritePump
    \/ \E id \in 1..MaxRequests : HandlePostResponse(id)
    \/ \E id \in 1..MaxRequests : PostResponseSend(id)

SpecPostIDs == Init /\ [][NextPostIDs]_vars

\* the proxy in local node mode: commands, malformed frames, post requests
NextFramesLocal ==
    \/ \E c \in ClientPool : ServeWS(c)
    \/ \E c \in ClientPool : Unregister(c)
    \/ \E c \in ClientPool : WritePump(c)
    \/ \E c \in ClientPool, sub \in Subs : HandleSubscribe(c, sub)
    \/ SubscribeReply
    \/ \E c \in ClientPool, sub \in Subs : HandleUnsubscribe(c, sub)
    \/ UnsubscribeReply
    \/ \E c \in ClientPool, frame \in MalformedFrames :
           HandleMalformed(c, frame)
    \/ \E c \in ClientPool : HandlePostRequest(c)
    \/ Reply

SpecFramesLocal == InitLocal /\ [][NextFramesLocal]_vars

(***************************************************************************)
(* LocalNodeReader: tailing a block file.  The file is a sequence of       *)
(* bytes; the node writes it in two chunks.                                *)
(***************************************************************************)
NL == "\n"
Space == {" ", "\t", "\r", NL}

\* the block records the node writes: one JSON object per line
Records == {<<"{", "}">>, <<"{", "a", "}">>}

RECURSIVE LogFilesOf(_)
LogFilesOf(n) ==
    IF n = 0 THEN {<<>>}
    ELSE LogFilesOf(n - 1) \cup
         {f \o r \o <<NL>> : f \in LogFilesOf(n - 1), r \in Records}

\* the files the node writes: records, each ended by a newline
LogFiles == LogFilesOf(MaxRecords)

\* strings.TrimSpace
RECURSIVE TrimLeft(_)
TrimLeft(line) ==
    IF line # <<>> /\ Head(line) \in Space THEN TrimLeft(Tail(line))
    ELSE line
RECURSIVE TrimRight(_)
TrimRight(line) ==
    IF line # <<>> /\ line[Len(line)] \in Space
    THEN TrimRight(SubSeq(line, 1, Len(line) - 1))
    ELSE line
TrimSpace(line) == TrimRight(TrimLeft(line))

\* strings.Split(content, "\n")
RECURSIVE Split(_)
Split(content) ==
    IF \A i \in 1..Len(content) : content[i] # NL THEN <<content>>
    ELSE LET i == CHOOSE j \in 1..Len(content) :
                      /\ content[j] = NL
                      /\ \A h \in 1..(j - 1) : content[h] # NL
         IN  <<SubSeq(content, 1, i - 1)>>
             \o Split(SubSeq(content, i + 1, Len(content)))

\* json.Unmarshal of a line into a block succeeds: the line is one
\* complete JSON object
Unmarshal(line) ==
    /\ Len(line) >= 2
    /\ line[1] = "{"
    /\ line[Len(line)] = "}"
    /\ \A i \in 2..(Len(line) - 1) : line[i] \notin {"{", "}"}

\* the read limit of one scan, 100 MiB
maxChunk == 100 * 1024 * 1024

\* faulty variant of readLines: the last line counts a newline too
RECURSIVE readLinesCountLast(_, _, _, _, _)
readLinesCountLast(lines, i, newPos, done, whole) ==
    IF i > Len(lines) THEN [pos |-> newPos, blocks |-> done]
    ELSE LET line == TrimSpace(lines[i])
             pos1 == newPos + Len(line) + 1
         IN  IF line = <<>>
             THEN readLinesCountLast(lines, i + 1, newPos, done, whole)
             ELSE readLinesCountLast(lines, i + 1, pos1,
                                     IF Unmarshal(line)
                                     THEN Append(done, line) ELSE done,
                                     whole)

\* readBlockFile, lines 725-756: the loop over the lines, from line i on,
\* with the position and the blocks so far
RECURSIVE readLines(_, _, _, _, _)
readLines(lines, i, newPos, done, whole) ==
    IF i > Len(lines) THEN [pos |-> newPos, blocks |-> done]
    ELSE LET line == TrimSpace(lines[i])
             last == (i = Len(lines))
             pos1 == IF ~last THEN newPos + Len(line) + 1 ELSE newPos
         IN  IF line = <<>>
             THEN readLines(lines, i + 1, newPos, done, whole)
             ELSE IF last /\ ~whole
             THEN readLines(lines, i + 1, pos1, done, whole)
             ELSE IF ~Unmarshal(line)
             THEN readLines(lines, i + 1, pos1, done, whole)
             ELSE readLines(lines, i + 1,
                            IF last /\ whole THEN pos1 + Len(line)
                            ELSE pos1,
                            Append(done, line), whole)

\* readBlockFile(filePath, fromPos), lines 675-769: what it leaves in
\* lastReadFiles and what it hands to processBlock
readBlockFile(file, fromPos, cursor) ==
    IF Len(file) <= fromPos THEN [cursor |-> cursor, blocks |-> <<>>]
    ELSE LET remainingSize == Min(Len(file) - fromPos, maxChunk)
             bytesRead == remainingSize
             content == SubSeq(file, fromPos + 1, fromPos + bytesRead)
             whole == fromPos + bytesRead >= Len(file)
             r == readLines(Split(content), 1, fromPos, <<>>, whole)
         IN  [cursor |-> [exists |-> TRUE, pos |-> r.pos],
              blocks |-> r.blocks]

\* scanBlockFiles, lines 641-672, for the one file: a tick of
\* watchReplicaCmdsDirectory
ScanBlockFiles ==
    /\ Len(blocks) < MaxBlocks
    /\ LET r == IF ~lastReadFiles.exists \/ Len(logFile) > lastReadFiles.pos
                THEN readBlockFile(logFile, lastReadFiles.pos, lastReadFiles)
                ELSE [cursor |-> lastReadFiles, blocks |-> <<>>]
       IN  /\ lastReadFiles' = r.cursor
           /\ blocks' = blocks \o r.blocks
    /\ scanned' = TRUE
    /\ UNCHANGED <<coreVars, postVars, assetVars, orderVars, logFile,
                   logPending, hwLastReadFiles, hwBlocks, hwScanned>>

\* processBlockFile of HyperWS, lines 507-518: the loop over the lines
RECURSIVE hwReadLines(_, _, _, _)
hwReadLines(lines, i, newPos, done) ==
    IF i > Len(lines) THEN [pos |-> newPos, blocks |-> done]
    ELSE LET line == TrimSpace(lines[i])
         IN  IF line = <<>> THEN hwReadLines(lines, i + 1, newPos, done)
             ELSE hwReadLines(lines, i + 1,
                              IF i < Len(lines) THEN newPos + Len(line) + 1
                              ELSE newPos,
                              IF Unmarshal(line) THEN Append(done, line)
                              ELSE done)

\* processBlockFile of HyperWS, lines 475-531
processBlockFile(file, cursor) ==
    IF cursor.exists /\ Len(file) <= cursor.pos
    THEN [cursor |-> cursor, blocks |-> <<>>]
    ELSE LET remainingSize == Min(Len(file) - cursor.pos, maxChunk)
             content == SubSeq(file, cursor.pos + 1,
                               cursor.pos + remainingSize)
             r == hwReadLines(Split(content), 1, cursor.pos, <<>>)
         IN  [cursor |-> [exists |-> TRUE, pos |-> r.pos],
              blocks |-> r.blocks]

\* scanBlockFiles of HyperWS, for the one file: a tick of watchFiles
HwScanBlockFiles ==
    /\ Len(hwBlocks) < MaxBlocks
    /\ LET r == processBlockFile(logFile, hwLastReadFiles)
       IN  /\ hwLastReadFiles' = r.cursor
           /\ hwBlocks' = hwBlocks \o r.blocks
    /\ hwScanned' = TRUE
    /\ UNCHANGED <<coreVars, postVars, assetVars, orderVars, logFile,
                   logPending, lastReadFiles, blocks, scanned>>

\* the node appends the second chunk to the file
WriteChunk ==
    /\ logPending # <<>>
    /\ logFile' = logFile \o logPending
    /\ logPending' = <<>>
    /\ scanned' = FALSE
    /\ hwScanned' = FALSE
    /\ UNCHANGED <<coreVars, postVars, assetVars, orderVars,
                   lastReadFiles, blocks, hwLastReadFiles, hwBlocks>>

\* every log file, cut into two chunks at every byte
InitChunks ==
    /\ \E f \in LogFiles, cut \in 0..(MaxRecords * 4) :
           /\ cut <= Len(f)
           /\ logFile = SubSeq(f, 1, cut)
           /\ logPending = SubSeq(f, cut + 1, Len(f))
    /\ lastReadFiles = [exists |-> FALSE, pos |-> 0]
    /\ blocks = <<>>
    /\ scanned = FALSE
    /\ hwLastReadFiles = [exists |-> FALSE, pos |-> 0]
    /\ hwBlocks = <<>>
    /\ hwScanned = FALSE

InitCore ==
    /\ useLocalNode = TRUE
    /\ InitHub
    /\ InitProxy
    /\ InitNoConnector
    /\ InitReader
    /\ InitHyperWS

NextTail ==
    \/ ScanBlockFiles
    \/ HwScanBlockFiles
    \/ WriteChunk

\* the proxy in local node mode and HyperWS, started, before the first scan
InitTailing ==
    /\ InitCore
    /\ InitPost
    /\ InitChunks
    /\ InitAssets
    /\ InitOrders
    /\ InitStart
    /\ InitServer
    /\ InitGo

SpecTail == InitTailing /\ [][NextTail]_vars

\* the file is truncated to its first n bytes (the node rotates it, or an
\* operator cuts it)
Truncate(n) ==
    /\ n < Len(logFile)
    /\ logFile' = SubSeq(logFile, 1, n)
    /\ scanned' = FALSE
    /\ hwScanned' = FALSE
    /\ UNCHANGED <<coreVars, postVars, assetVars, orderVars, logPending,
                   lastReadFiles, blocks, hwLastReadFiles, hwBlocks>>

\* tailing a file that is appended to and truncated
NextTruncate ==
    \/ NextTail
    \/ \E n \in 0..(MaxRecords * 4) : Truncate(n)

SpecTruncate == InitTailing /\ [][NextTruncate]_vars

(***************************************************************************)
(* LocalNodeReader: lines that do not parse, and the bundles and actions   *)
(* of a block.  A bundle is the array of signed_action_bundles: a hash and *)
(* the bundle data; `ok` tells whether json.Unmarshal decodes the data     *)
(* into a SignedActionBundle.                                              *)
(***************************************************************************)
\* a line json.Unmarshal rejects: an object that is cut short
Garbled == {<<"{", "a">>}

RECURSIVE FilesOf(_, _)
FilesOf(records, n) ==
    IF n = 0 THEN {<<>>}
    ELSE FilesOf(records, n - 1) \cup
         {f \o r \o <<NL>> : f \in FilesOf(records, n - 1), r \in records}

\* files whose lines are block records or garbled, each ended by a newline
LineFiles == FilesOf(Records \cup Garbled, MaxRecords)

\* the actions of a bundle: the orders 1 and 2 come in order actions, the
\* order 3 in actions of other types
SignedActions ==
    {[Type |-> "order", Orders |-> <<1>>],
     [Type |-> "order", Orders |-> <<2>>],
     [Type |-> "cancelByCloid", Orders |-> <<3>>],
     [Type |-> "scheduleCancel", Orders |-> <<3>>],
     [Type |-> "noop", Orders |-> <<>>],
     [Type |-> "vote", Orders |-> <<3>>]}

ActionSeqs ==
    {<<>>} \cup {<<a>> : a \in SignedActions}
           \cup {<<a, b>> : a, b \in SignedActions}

\* the bundles: an array too short, data that does not decode, data that
\* decodes
Bundles ==
    {<<"hash">>}
    \cup {<<"hash", [ok |-> FALSE, SignedActions |-> <<>>]>>}
    \cup {<<"hash", [ok |-> TRUE, SignedActions |-> as]>> : as \in ActionSeqs}

\* the blocks: up to MaxBundles bundles
Blocks ==
    UNION {[1..n -> Bundles] : n \in 0..MaxBundles}

\* processSignedAction, lines 864-878: the orders it hands to processOrders
processSignedAction(action) ==
    IF action.Type = "order" THEN action.Orders
    ELSE <<>>

\* faulty variant of signedActionsFrom: the actions after the first one
\* that is no order are left out
RECURSIVE signedActionsUntilOther(_)
signedActionsUntilOther(actions) ==
    IF actions = <<>> \/ Head(actions).Type # "order" THEN <<>>
    ELSE <<Head(actions)>> \o signedActionsUntilOther(Tail(actions))

\* processSignedActionBundle, lines 845-851: the loop over the signed
\* actions, every one of them
signedActionsFrom(actions) == actions

\* processSignedActionBundle, lines 811-852: the orders of one bundle
RECURSIVE ordersOfActions(_)
ordersOfActions(actions) ==
    IF actions = <<>> THEN <<>>
    ELSE processSignedAction(Head(actions)) \o ordersOfActions(Tail(actions))

processSignedActionBundle(bundleArray) ==
    IF Len(bundleArray) < 2 THEN <<>>
    ELSE IF ~bundleArray[2].ok THEN <<>>
    ELSE ordersOfActions(signedActionsFrom(bundleArray[2].SignedActions))

\* processBlock, lines 790-795: one turn of the loop over the bundles
ProcessBlock ==
    /\ bundleIndex < Len(block)
    /\ ordersSeen' =
           ordersSeen \o processSignedActionBundle(block[bundleIndex + 1])
    /\ bundleIndex' = bundleIndex + 1
    /\ UNCHANGED <<hubVars, proxyVars, connVars, readerVars, hwVars,
                   postVars, tailVars, assetVars, orderVars, startVars,
                   serverVars, goVars, block, ringVars, callVars,
                   extraVars>>

\* the reader before its first scan of a file with garbled lines, handed
\* a block
InitBlocks ==
    /\ InitCore
    /\ InitPost
    /\ logFile \in LineFiles
    /\ logPending = <<>>
    /\ lastReadFiles = [exists |-> FALSE, pos |-> 0]
    /\ blocks = <<>>
    /\ scanned = FALSE
    /\ hwLastReadFiles = [exists |-> FALSE, pos |-> 0]
    /\ hwBlocks = <<>>
    /\ hwScanned = FALSE
    /\ InitAssets
    /\ InitOrders
    /\ InitStart
    /\ InitServer
    /\ unsubscribeGoroutines = [sub \in Subs |-> 0]
    /\ block \in Blocks
    /\ bundleIndex = 0
    /\ ordersSeen = <<>>
    /\ hwOrdersDone = 0
    /\ calls = [g \in Callers |-> NoCall]
    /\ InitWire
    /\ InitLocks

NextBlocks ==
    \/ ScanBlockFiles
    \/ ProcessBlock

SpecBlocks == InitBlocks /\ [][NextBlocks]_vars

(***************************************************************************)
(* Proxy.Start, from the proxy NewProxy made, in either mode.              *)
(***************************************************************************)
\* NewProxy: nothing started, nothing connected; the environment decides
\* whether the log root can be opened and whether the first dial succeeds
InitNew ==
    /\ useLocalNode \in BOOLEAN
    /\ InitHub
    /\ InitProxy
    /\ InitNoConnector
    /\ InitReader
    /\ InitHyperWS
    /\ InitPost
    /\ InitChunks
    /\ InitAssets
    /\ InitOrders
    /\ startResult = "none"
    /\ logRoot \in BOOLEAN
    /\ dialOK \in BOOLEAN
    /\ InitServer
    /\ InitGo

\* Proxy.Start: what it returns.  In local node mode `go
\* p.localNodeReader.Start()` returns nothing to it; otherwise the error
\* of hlConnector.Connect
StartOutcome ==
    IF useLocalNode THEN "ok"
    ELSE IF dialOK THEN "ok" ELSE "error"

\* Proxy.Start, with Connector.Connect in the remote mode
ProxyStart ==
    /\ startResult = "none"
    /\ startResult' = StartOutcome
    /\ IF ~useLocalNode /\ dialOK
       THEN /\ isConnected' = TRUE
            /\ conn' = 1
            /\ dials' = 1
            /\ currentRetries' = 0
            /\ readPumps' = {1}
            /\ writePumps' = 1
            /\ resubscribers' = {Sleeping}
            /\ UNCHANGED <<subscriptions, outgoingMessages, reconnecting,
                           attempt, delay, written, trackedAtFailure>>
       ELSE UNCHANGED connVars
    /\ UNCHANGED <<hubVars, proxyVars, readerVars, hwVars, postVars,
                   tailVars, assetVars, orderVars, logRoot, dialOK,
                   serverVars, restVars>>

\* scanReplicaCmdsDirectory, a tick of watchReplicaCmdsDirectory: nothing
\* when the directory is not there, else the scan of the block file
ScanReplicaCmdsDirectory ==
    /\ useLocalNode
    /\ startResult = "ok"
    /\ IF logRoot THEN ScanBlockFiles ELSE UNCHANGED vars

NextStart ==
    \/ ProxyStart
    \/ ScanReplicaCmdsDirectory
    \/ WriteChunk

SpecStart == InitNew /\ [][NextStart]_vars

(***************************************************************************)
(* proxy.AssetFetcher, the asset resolver, and the trades the readers      *)
(* derive from the orders of a block.                                      *)
(***************************************************************************)
\* strconv.Itoa, and %d of fmt.Sprintf, of a number that is not negative
Digit == <<"0", "1", "2", "3", "4", "5", "6", "7", "8", "9">>
RECURSIVE Itoa(_)
Itoa(n) ==
    IF n < 10 THEN Digit[n + 1]
    ELSE Itoa(n \div 10) \o Digit[(n % 10) + 1]

\* the offset of the spot identifiers
spotOffset == 10000

\* HyperliquidMetaResponse: the answers to {"type": "meta"}; ok = FALSE is
\* a request that failed, a status that is not 200 or a body that does
\* not decode
MetaResponses ==
    {[ok |-> FALSE, Universe |-> <<>>]} \cup
    {[ok |-> TRUE, Universe |-> u] :
         u \in {<<>>, <<"BTC">>, <<"BTC", "ETH">>}}

PURRPair == [Name |-> "PURR/USDC", Tokens |-> <<1, 0>>, Index |-> 0]
HYPEPair == [Name |-> "@1", Tokens |-> <<2, 0>>, Index |-> 1]
SpotTokens == <<[Name |-> "USDC", Index |-> 0],
                [Name |-> "PURR", Index |-> 1],
                [Name |-> "HYPE", Index |-> 2]>>

\* HyperliquidSpotMetaResponse: the answers to {"type": "spotMeta"}
SpotMetaResponses ==
    {[ok |-> FALSE, Tokens |-> <<>>, Universe |-> <<>>]} \cup
    {[ok |-> TRUE, Tokens |-> SpotTokens, Universe |-> u] :
         u \in {<<>>, <<PURRPair>>, <<PURRPair, HYPEPair>>}}

AssetInfo(index, name, isSpot, tokenIndex) ==
    [Index |-> index, Name |-> name, IsSpot |-> isSpot,
     TokenIndex |-> tokenIndex]

\* a Go map after the assignments m[keys[i]] = vals[i], for i in order: a
\* later assignment overwrites an earlier one
Assigned(m, keys, vals) ==
    LET assigned == {keys[i] : i \in 1..Len(keys)}
        lastOf(k) == CHOOSE i \in 1..Len(keys) :
                         /\ keys[i] = k
                         /\ \A j \in (i + 1)..Len(keys) : keys[j] # k
    IN  [k \in DOMAIN m \cup assigned |->
             IF k \in assigned THEN vals[lastOf(k)] ELSE m[k]]

\* the three tables of the fetcher
Tables == [perp |-> perpAssets, spot |-> spotAssets, byName |-> assetsByName]

\* fetchPerpetuals: the tables and the error it returns
fetchPerpetuals(t, metaResp) ==
    IF ~metaResp.ok THEN [tables |-> t, err |-> TRUE]
    ELSE LET n == Len(metaResp.Universe)
             infos == [i \in 1..n |->
                           AssetInfo(i - 1, metaResp.Universe[i], FALSE, 0)]
             indexes == [i \in 1..n |-> i - 1]
         IN  [tables |->
                  [perp |-> Assigned(t.perp, indexes, infos),
                   spot |-> t.spot,
                   byName |-> Assigned(t.byName, metaResp.Universe, infos)],
              err |-> FALSE]

\* fetchSpotAssets, lines 212-215: tokenMap[index], "" when absent
tokenMap(tokens, index) ==
    IF \E i \in 1..Len(tokens) : tokens[i].Index = index
    THEN tokens[CHOOSE i \in 1..Len(tokens) :
                    /\ tokens[i].Index = index
                    /\ \A j \in (i + 1)..Len(tokens) :
                           tokens[j].Index # index].Name
    ELSE ""

\* fetchSpotAssets, lines 220-230: the display name of a pair
assetName(tokens, pair) ==
    IF Len(pair.Tokens) >= 2 /\ pair.Tokens[1] = 1
       /\ tokenMap(tokens, 1) # ""
    THEN tokenMap(tokens, pair.Tokens[1]) \o "/USDC"
    ELSE IF Len(pair.Tokens) >= 2 /\ pair.Tokens[1] # 0
            /\ pair.Tokens[1] # 1
    THEN "@" \o Itoa(pair.Index)
    ELSE pair.Name

\* fetchSpotAssets: the tables and the error it returns
fetchSpotAssets(t, spotResp) ==
    IF ~spotResp.ok THEN [tables |-> t, err |-> TRUE]
    ELSE LET n == Len(spotResp.Universe)
             pair(i) == spotResp.Universe[i]
             names == [i \in 1..n |-> assetName(spotResp.Tokens, pair(i))]
             indexes == [i \in 1..n |-> spotOffset + pair(i).Index]
             infos == [i \in 1..n |->
                           AssetInfo(indexes[i], names[i], TRUE,
                                     pair(i).Index)]
         IN  [tables |->
                  [perp |-> t.perp,
                   spot |-> Assigned(t.spot, indexes, infos),
                   byName |-> Assigned(t.byName, names, infos)],
              err |-> FALSE]

\* fetchAssets, under af.mu: the perpetuals, then the spot assets
fetchAssets(t, metaResp, spotResp) ==
    LET perps == fetchPerpetuals(t, metaResp)
    IN  IF perps.err THEN perps
        ELSE fetchSpotAssets(perps.tables, spotResp)

\* AssetFetcher.Start: the first fetch; periodicUpdate is started only
\* when it succeeds
AssetFetcherStart(metaResp, spotResp) ==
    /\ fetcherState = "new"
    /\ LET r == fetchAssets(Tables, metaResp, spotResp)
       IN  /\ perpAssets' = r.tables.perp
           /\ spotAssets' = r.tables.spot
           /\ assetsByName' = r.tables.byName
           /\ fetcherState' = IF r.err THEN "failed" ELSE "running"
    /\ UNCHANGED <<coreVars, postVars, tailVars, orderVars>>

\* periodicUpdate: a tick of the update timer
PeriodicUpdate(metaResp, spotResp) ==
    /\ fetcherState = "running"
    /\ LET r == fetchAssets(Tables, metaResp, spotResp)
       IN  /\ perpAssets' = r.tables.perp
           /\ spotAssets' = r.tables.spot
           /\ assetsByName' = r.tables.byName
    /\ UNCHANGED <<coreVars, postVars, tailVars, orderVars, fetcherState>>

\* AssetFetcher.GetAssetByID: the perpetuals first, then the spot assets
GetAssetByID(id) ==
    IF id \in DOMAIN perpAssets
    THEN [asset |-> perpAssets[id], exists |-> TRUE]
    ELSE IF id \in DOMAIN spotAssets
    THEN [asset |-> spotAssets[id], exists |-> TRUE]
    ELSE [asset |-> AssetInfo(0, "", FALSE, 0), exists |-> FALSE]

\* LocalNodeReader.getAssetSymbol of the proxy
getAssetSymbol(assetID) ==
    IF GetAssetByID(assetID).exists THEN GetAssetByID(assetID).asset.Name
    ELSE IF GetAssetByID(spotOffset + assetID).exists
    THEN GetAssetByID(spotOffset + assetID).asset.Name
    ELSE IF assetID > 0 /\ assetID < 1000 THEN "@" \o Itoa(assetID)
    ELSE "ASSET_" \o Itoa(assetID)

\* loadAssetMetadata of HyperWS: the fixed names of the assets 0..19
basicAssets ==
    <<"BTC", "ETH", "DOGE", "SOL", "WIF", "BONK", "PEPE", "ARB", "AVAX",
      "MATIC", "LINK", "UNI", "LTC", "BCH", "XRP", "ADA", "DOT", "NEAR",
      "FTM", "ATOM">>

\* LocalNodeReader.getAssetName of HyperWS
getAssetName(assetID) ==
    IF assetID + 1 \in DOMAIN basicAssets THEN basicAssets[assetID + 1]
    ELSE IF assetID >= spotOffset THEN "@" \o Itoa(assetID - spotOffset)
    ELSE "ASSET_" \o Itoa(assetID)

\* the asset ids of the orders
AssetIDs == {0, 1, 2, spotOffset, spotOffset + 1}

\* Order: the fields a, b, p and s of an order
Orders == [Asset : AssetIDs, IsBuy : BOOLEAN, Price : {"100.5"},
           Size : {"2.0"}]

\* abci_block.time: an RFC 3339 time, as its seconds and nanoseconds since
\* the epoch, or a string that is not one
BlockTimes ==
    {[rfc3339 |-> TRUE, sec |-> 1, nano |-> 500000000],
     [rfc3339 |-> TRUE, sec |-> 2, nano |-> 999999],
     [rfc3339 |-> FALSE, sec |-> 0, nano |-> 0]}

\* time.Now().UnixMilli() when the orders are processed
Now == 9000

\* parseBlockTime: t.UnixMilli(), or the clock when the time does not parse
parseBlockTime(timeStr) ==
    IF timeStr.rfc3339
    THEN timeStr.sec * 1000 + (timeStr.nano \div 1000000)
    ELSE Now

\* the trades a symbol keeps at most: the proxy, HyperWS
maxTrades == 1000
hwMaxTrades == 100

\* a trade that is marked "sell" unless the order sells
TradeSideFlipped(isBuy) == IF isBuy THEN "sell" ELSE "buy"

\* processOrders: Side: "buy", and "sell" if !order.IsBuy
TradeSide(isBuy) == IF isBuy THEN "buy" ELSE "sell"

\* processOrders: the trade made of one order
WsTrade(symbol, order, blockTime) ==
    [Coin |-> symbol, Side |-> TradeSide(order.IsBuy), Px |-> order.Price,
     Sz |-> order.Size, Time |-> parseBlockTime(blockTime)]

\* faulty variant of AppendTrade: a full ring keeps what it has
AppendTradeKeepOld(trades, symbol, trade, limit) ==
    LET old == IF symbol \in DOMAIN trades THEN trades[symbol] ELSE <<>>
        kept == IF Len(old) >= limit THEN old ELSE Append(old, trade)
    IN  [k \in DOMAIN trades \cup {symbol} |->
             IF k = symbol THEN kept ELSE trades[k]]

\* append to latestTrades[symbol], keeping the last `limit` trades
AppendTrade(trades, symbol, trade, limit) ==
    LET old == IF symbol \in DOMAIN trades THEN trades[symbol] ELSE <<>>
        new == Append(old, trade)
        kept == IF Len(new) > limit
                THEN SubSeq(new, Len(new) - limit + 1, Len(new))
                ELSE new
    IN  [k \in DOMAIN trades \cup {symbol} |->
             IF k = symbol THEN kept ELSE trades[k]]

SetPrice(prices, symbol, price) ==
    [k \in DOMAIN prices \cup {symbol} |->
         IF k = symbol THEN price ELSE prices[k]]

\* processOrders of the proxy, lines 890-941: what one order does to the
\* trades and prices
storeOrder(order, blockTime) ==
    LET symbol == getAssetSymbol(order.Asset)
    IN  /\ readerTrades' =
               AppendTrade(readerTrades, symbol,
                           WsTrade(symbol, order, blockTime), maxTrades)
        /\ readerPrices' = SetPrice(readerPrices, symbol, order.Price)

\* processOrders of HyperWS, lines 582-615: the same
hwStoreOrder(order, blockTime) ==
    LET symbol == getAssetName(order.Asset)
    IN  /\ hwReaderTrades' =
               AppendTrade(hwReaderTrades, symbol,
                           WsTrade(symbol, order, blockTime), hwMaxTrades)
        /\ hwReaderPrices' = SetPrice(hwReaderPrices, symbol, order.Price)

\* processOrders of the proxy, for one order of an action of type "order"
processOrders(order, blockTime) ==
    /\ ordersDone < MaxOrders
    /\ ordersDone' = ordersDone + 1
    /\ storeOrder(order, blockTime)
    /\ UNCHANGED <<coreVars, postVars, tailVars, assetVars, hwReaderTrades,
                   hwReaderPrices>>

\* processOrders of HyperWS, for one order of an action of type "order"
hwProcessOrders(order, blockTime) ==
    /\ ordersDone < MaxOrders
    /\ ordersDone' = ordersDone + 1
    /\ hwStoreOrder(order, blockTime)
    /\ UNCHANGED <<coreVars, postVars, tailVars, assetVars, readerTrades,
                   readerPrices>>

\* sendInitialLocalNodeData, line 407: the coins whose price it asks for
initialCoins ==
    {"BTC", "ETH", "SOL", "MATIC", "ARB", "OP", "AVAX", "ATOM", "NEAR",
     "APT", "LTC", "BCH", "XRP", "SUI", "SEI"}

\* sendInitialLocalNodeData, case "allMids": the price map it builds from
\* GetLatestPrice; it is sent when it is not empty
InitialAllMids ==
    [coin \in initialCoins \cap DOMAIN readerPrices |-> readerPrices[coin]]

\* GetAllPrices of HyperWS, for sendInitialData: a copy of latestPrices
hwInitialAllMids == [coin \in DOMAIN hwReaderPrices |-> hwReaderPrices[coin]]

\* GetLatestTrades(coin, limit) of either reader, on its table of trades
LatestTradesOf(trades, coin, limit) ==
    IF coin \notin DOMAIN trades THEN <<>>
    ELSE IF limit > 0 /\ Len(trades[coin]) > limit
    THEN SubSeq(trades[coin], Len(trades[coin]) - limit + 1,
                Len(trades[coin]))
    ELSE trades[coin]

NextIngest ==
    \/ \E metaResp \in MetaResponses, spotResp \in SpotMetaResponses :
           \/ AssetFetcherStart(metaResp, spotResp)
           \/ PeriodicUpdate(metaResp, spotResp)
    \/ \E order \in Orders, blockTime \in BlockTimes :
           \/ processOrders(order, blockTime)
           \/ hwProcessOrders(order, blockTime)

SpecIngest == InitLocal /\ [][NextIngest]_vars

(***************************************************************************)
(* The readers fed a long stream of orders: the first order is for asset   *)
(* 1, every later one for asset 0; the price of the n-th order is n.       *)
(***************************************************************************)
StreamOrder(n) ==
    [Asset |-> IF n = 1 THEN 1 ELSE 0, IsBuy |-> (n % 2 = 0),
     Price |-> Itoa(n), Size |-> "2.0"]

StreamTime == [rfc3339 |-> TRUE, sec |-> 1, nano |-> 500000000]

\* processOrders of the proxy for the next order of the stream
FeedOrder ==
    /\ ordersDone < maxTrades + RingExtra
    /\ ordersDone' = ordersDone + 1
    /\ storeOrder(StreamOrder(ordersDone + 1), StreamTime)
    /\ UNCHANGED <<coreVars, postVars, tailVars, assetVars, hwReaderTrades,
                   hwReaderPrices>>

\* processOrders of HyperWS for the next order of the stream
HwFeedOrder ==
    /\ hwOrdersDone < hwMaxTrades + RingExtra
    /\ hwOrdersDone' = hwOrdersDone + 1
    /\ hwStoreOrder(StreamOrder(hwOrdersDone + 1), StreamTime)
    /\ UNCHANGED <<hubVars, proxyVars, connVars, readerVars, hwVars,
                   postVars, tailVars, assetVars, startVars, serverVars,
                   goVars, blockVars, callVars, extraVars, readerTrades,
                   readerPrices,
                   ordersDone>>

\* the two readers belong to two programs that share nothing, so their
\* steps commute: HyperWS takes its orders first, then the proxy
NextRing ==
    \/ HwFeedOrder
    \/ hwOrdersDone = hwMaxTrades + RingExtra /\ FeedOrder

SpecRing == InitLocal /\ [][NextRing]_vars

(***************************************************************************)
(* server.Server: the limit on the number of clients.  Every request runs  *)
(* handleWebSocket in a goroutine of its own.                              *)
(***************************************************************************)
\* handleWebSocket, lines 87-91: the check of the limit, passed
HandleWebSocket(c) ==
    /\ panic = ""
    /\ c \notin created
    /\ c \notin admitted
    /\ Cardinality(hubClients) < MaxClients
    /\ admitted' = admitted \cup {c}
    /\ UNCHANGED <<hubVars, proxyVars, connVars, readerVars, hwVars,
                   postVars, tailVars, assetVars, orderVars, startVars,
                   restVars>>

\* handleWebSocket, line 94: ServeWS for a request that passed the check:
\* NewClient, then Hub.Run's Register case
ServeAdmitted(c) ==
    /\ panic = ""
    /\ c \in admitted
    /\ admitted' = admitted \ {c}
    /\ created' = created \cup {c}
    /\ hubClients' = hubClients \cup {c}
    /\ UNCHANGED <<Send, closeCount, Subscriptions, proxyVars, connVars,
                   readerVars, hwVars, postVars, tailVars, assetVars,
                   orderVars, startVars, restVars>>

\* the sessions of the proxy behind the server's limit; the reader has no
\* trade, so no subscribe has initial trades to send
NextServer ==
    \/ \E c \in ClientPool : HandleWebSocket(c)
    \/ \E c \in ClientPool : ServeAdmitted(c)
    \/ \E c \in ClientPool : Unregister(c)
    \/ \E c \in ClientPool : WritePump(c)
    \/ \E c \in ClientPool, sub \in Subs : HandleSubscribe(c, sub)
    \/ SubscribeReply
    \/ \E c \in ClientPool, sub \in Subs : HandleUnsubscribe(c, sub)
    \/ UnsubscribeReply

SpecServer == InitLocal /\ [][NextServer]_vars

(***************************************************************************)
(* HyperWS, the stand-alone server.  Each client's readPump runs the       *)
(* handlers itself, so the handlers of different clients interleave: the   *)
(* critical sections of a handler are one step, each sendMessage after     *)
(* them is a step of its own.                                              *)
(***************************************************************************)
proxyState == <<hubVars, proxyVars, connVars, readerVars>>

HasPrefix(s, prefix) ==
    Len(s) >= Len(prefix) /\ SubSeq(s, 1, Len(prefix)) = prefix
TrimPrefix(s, prefix) ==
    IF HasPrefix(s, prefix) THEN SubSeq(s, Len(prefix) + 1, Len(s)) ELSE s

\* Client.createSubscriptionKey of HyperWS: no Dex field
hwCreateSubscriptionKey(sub) ==
    LET k0 == sub.Type
        k1 == IF sub.User # "" THEN k0 \o "-" \o sub.User ELSE k0
        k2 == IF sub.Coin # "" THEN k1 \o "-" \o sub.Coin ELSE k1
        k3 == IF sub.Interval # "" THEN k2 \o "-" \o sub.Interval ELSE k2
    IN  k3

\* LocalNodeReader.GetLatestTrades and GetAllPrices of HyperWS
hwGetLatestTrades(coin, limit) ==
    IF coin \notin DOMAIN hwLatestTrades THEN <<>>
    ELSE LET trades == hwLatestTrades[coin]
         IN  IF limit > 0 /\ Len(trades) > limit
             THEN SubSeq(trades, Len(trades) - limit + 1, Len(trades))
             ELSE trades

GetAllPrices == {coin \in Coins : hwLatestTrades[coin] # <<>>}

\* Client.sendMessage, lines 341-353: a non-blocking send that closes the
\* queue when it is full; on a closed queue the send panics
hwSendMessage(c, frame) ==
    IF hwCloseCount[c] > 0
    THEN /\ hwPanic' = "send on closed channel"
         /\ UNCHANGED <<hwSend, hwCloseCount>>
    ELSE IF Len(hwSend[c]) < SendCap
    THEN /\ hwSend' = [hwSend EXCEPT ![c] = Append(@, frame)]
         /\ UNCHANGED <<hwPanic, hwCloseCount>>
    ELSE /\ hwCloseCount' = [hwCloseCount EXCEPT ![c] = @ + 1]
         /\ UNCHANGED <<hwPanic, hwSend>>

\* handleWebSocket, lines 414-426, and Hub.Run's register case
HwServeWS(c) ==
    /\ hwPanic = ""
    /\ c \notin hwCreated
    /\ hwCreated' = hwCreated \cup {c}
    /\ hwClients' = hwClients \cup {c}
    /\ UNCHANGED <<proxyState, moreVars, hwSubscriptions, hwSend, hwCloseCount,
                   hwClientSubscriptions, hwHandler, hwPanic, hwLatestTrades>>

\* Hub.subscriptions without client c, entries left empty deleted
hwRemoveFromAll(c) ==
    LET kept == {k \in DOMAIN hwSubscriptions : hwSubscriptions[k] \ {c} # {}}
    IN  [k \in kept |-> hwSubscriptions[k] \ {c}]

\* Client.readPump ends between two frames (read error, or the socket was
\* closed by writePump after it found the queue closed) and Hub.Run takes
\* the client from unregister, lines 92-109; writePump takes what is still
\* buffered and ends
HwUnregister(c) ==
    /\ hwPanic = ""
    /\ c \in hwClients
    /\ hwHandler[c] = Idle
    /\ hwCloseCount' = [hwCloseCount EXCEPT ![c] = @ + 1]
    /\ IF hwCloseCount[c] > 0
       THEN /\ hwPanic' = "close of closed channel"
            /\ UNCHANGED <<hwClients, hwSubscriptions, hwSend>>
       ELSE /\ hwClients' = hwClients \ {c}
            /\ hwSubscriptions' = hwRemoveFromAll(c)
            /\ hwSend' = [hwSend EXCEPT ![c] = <<>>]
            /\ hwPanic' = hwPanic
    /\ UNCHANGED <<proxyState, moreVars, hwCreated, hwClientSubscriptions, hwHandler,
                   hwLatestTrades>>

\* Client.writePump, lines 162-202
HwWritePump(c) ==
    /\ hwPanic = ""
    /\ c \in hwClients
    /\ hwSend[c] # <<>>
    /\ hwSend' = [hwSend EXCEPT ![c] = <<>>]
    /\ UNCHANGED <<proxyState, moreVars, hwCreated, hwClients, hwSubscriptions,
                   hwCloseCount, hwClientSubscriptions, hwHandler, hwPanic,
                   hwLatestTrades>>

\* the frames sendInitialData (lines 296-323) passes to sendMessage
hwInitialData(sub) ==
    IF sub.Type = "allMids"
    THEN IF GetAllPrices # {} THEN <<AllMidsFrame(GetAllPrices)>> ELSE <<>>
    ELSE IF sub.Type = "trades" /\ sub.Coin # ""
    THEN LET trades == hwGetLatestTrades(sub.Coin, 5)
         IN  [i \in 1..Len(trades) |-> TradeFrame(sub.Coin, trades[i])]
    ELSE <<>>

\* Client.handleSubscribe, lines 224-251: the client's own map, then the
\* hub's registry
HwHandleSubscribe(c, sub) ==
    /\ hwPanic = ""
    /\ c \in hwClients
    /\ hwHandler[c] = Idle
    /\ LET key == hwCreateSubscriptionKey(sub)
           members == IF key \in DOMAIN hwSubscriptions
                      THEN hwSubscriptions[key] ELSE {}
       IN  /\ hwClientSubscriptions' =
                  [hwClientSubscriptions EXCEPT ![c] = MapPut(@, key, sub)]
           /\ hwSubscriptions' = MapPut(hwSubscriptions, key, members \cup {c})
    /\ hwHandler' = [hwHandler EXCEPT
                        ![c] = [pc |-> "subscribe", sub |-> sub]]
    /\ UNCHANGED <<proxyState, moreVars, hwCreated, hwClients, hwSend, hwCloseCount,
                   hwPanic, hwLatestTrades>>

\* Client.handleUnsubscribe, lines 264-285
HwHandleUnsubscribe(c, sub) ==
    /\ hwPanic = ""
    /\ c \in hwClients
    /\ hwHandler[c] = Idle
    /\ LET key == hwCreateSubscriptionKey(sub)
       IN  /\ hwClientSubscriptions' =
                  [hwClientSubscriptions EXCEPT ![c] = MapDelete(@, key)]
           /\ hwSubscriptions' =
                  IF key \notin DOMAIN hwSubscriptions THEN hwSubscriptions
                  ELSE IF hwSubscriptions[key] \ {c} = {}
                  THEN MapDelete(hwSubscriptions, key)
                  ELSE [hwSubscriptions EXCEPT ![key] = @ \ {c}]
    /\ hwHandler' = [hwHandler EXCEPT
                        ![c] = [pc |-> "unsubscribe", sub |-> sub]]
    /\ UNCHANGED <<proxyState, moreVars, hwCreated, hwClients, hwSend, hwCloseCount,
                   hwPanic, hwLatestTrades>>

\* handleSubscribe, lines 253-260: the subscription response, then
\* sendInitialData reads the reader
HwSubscribeReply(c) ==
    /\ hwPanic = ""
    /\ hwHandler[c].pc = "subscribe"
    /\ hwSendMessage(c, SubscriptionResponse("subscribe", hwHandler[c].sub))
    /\ LET frames == hwInitialData(hwHandler[c].sub)
       IN  hwHandler' = [hwHandler EXCEPT
                            ![c] = IF frames = <<>> THEN Idle
                                   ELSE [pc |-> "sending", frames |-> frames]]
    /\ UNCHANGED <<proxyState, moreVars, hwCreated, hwClients, hwSubscriptions,
                   hwClientSubscriptions, hwLatestTrades>>

\* sendInitialData, lines 296-323: one sendMessage
HwSendInitialData(c) ==
    /\ hwPanic = ""
    /\ hwHandler[c].pc = "sending"
    /\ hwSendMessage(c, Head(hwHandler[c].frames))
    /\ hwHandler' = [hwHandler EXCEPT
                        ![c] = IF Tail(@.frames) = <<>> THEN Idle
                               ELSE [@ EXCEPT !.frames = Tail(@)]]
    /\ UNCHANGED <<proxyState, moreVars, hwCreated, hwClients, hwSubscriptions,
                   hwClientSubscriptions, hwLatestTrades>>

\* handleUnsubscribe, lines 287-292: the subscription response
HwUnsubscribeReply(c) ==
    /\ hwPanic = ""
    /\ hwHandler[c].pc = "unsubscribe"
    /\ hwSendMessage(c, SubscriptionResponse("unsubscribe", hwHandler[c].sub))
    /\ hwHandler' = [hwHandler EXCEPT ![c] = Idle]
    /\ UNCHANGED <<proxyState, moreVars, hwCreated, hwClients, hwSubscriptions,
                   hwClientSubscriptions, hwLatestTrades>>

\* the sends `case client.send <- data` of one publish: every client of
\* every key in `keys`; nothing is done for a client whose queue is full,
\* and a closed queue panics
hwPublish(keys, data) ==
    LET members(c) == {k \in keys : c \in hwSubscriptions[k]}
        n(c) == Min(Cardinality(members(c)), SendCap - Len(hwSend[c]))
    IN  IF \E c \in ClientPool : members(c) # {} /\ hwCloseCount[c] > 0
        THEN /\ hwPanic' = "send on closed channel"
             /\ hwSend' = hwSend
        ELSE /\ hwPanic' = hwPanic
             /\ hwSend' = [c \in ClientPool |->
                              hwSend[c] \o Repeat(data, n(c))]

\* HyperWS.generateAllMids, lines 484-529
HwGenerateAllMids ==
    /\ hwPanic = ""
    /\ \E k \in DOMAIN hwSubscriptions : HasPrefix(k, "allMids")
    /\ GetAllPrices # {}
    /\ hwPublish({k \in DOMAIN hwSubscriptions : HasPrefix(k, "allMids")},
                 AllMidsFrame(GetAllPrices))
    /\ UNCHANGED <<proxyState, moreVars, hwCreated, hwClients, hwSubscriptions,
                   hwCloseCount, hwClientSubscriptions, hwHandler,
                   hwLatestTrades>>

\* HyperWS.generateTrades, lines 532-570: the turn of its second loop for
\* the key "trades-" \o coin
HwGenerateTrades(k) ==
    /\ hwPanic = ""
    /\ k \in DOMAIN hwSubscriptions
    /\ HasPrefix(k, "trades-")
    /\ LET coin == TrimPrefix(k, "trades-")
           trades == hwGetLatestTrades(coin, 1)
       IN  /\ trades # <<>>
           /\ hwPublish({k}, TradeFrame(coin, trades[Len(trades)]))
    /\ UNCHANGED <<proxyState, moreVars, hwCreated, hwClients, hwSubscriptions,
                   hwCloseCount, hwClientSubscriptions, hwHandler,
                   hwLatestTrades>>

\* LocalNodeReader.processOrders of HyperWS storing one trade of a coin
HwProcessOrders(coin) ==
    /\ hwPanic = ""
    /\ Len(hwLatestTrades[coin]) < MaxTrades
    /\ hwLatestTrades' = [hwLatestTrades EXCEPT
                             ![coin] = Append(@, Len(@) + 1)]
    /\ UNCHANGED <<proxyState, moreVars, hwCreated, hwClients, hwSubscriptions, hwSend,
                   hwCloseCount, hwClientSubscriptions, hwHandler, hwPanic>>

NextHyperWS ==
    \/ \E c \in ClientPool : HwServeWS(c)
    \/ \E c \in ClientPool : HwUnregister(c)
    \/ \E c \in ClientPool : HwWritePump(c)
    \/ \E c \in ClientPool, sub \in Subs : HwHandleSubscribe(c, sub)
    \/ \E c \in ClientPool : HwSubscribeReply(c)
    \/ \E c \in ClientPool : HwSendInitialData(c)
    \/ \E c \in ClientPool, sub \in Subs : HwHandleUnsubscribe(c, sub)
    \/ \E c \in ClientPool : HwUnsubscribeReply(c)
    \/ HwGenerateAllMids
    \/ \E k \in Keys : HwGenerateTrades(k)
    \/ \E coin \in Coins : HwProcessOrders(coin)

SpecHyperWS == InitLocal /\ [][NextHyperWS]_vars

(***************************************************************************)
(* client.Client.writePump at the level of bytes: what goes into Send,     *)
(* what writePump makes of it on the socket, and what the receiver's       *)
(* parseMultipleJsonMessages makes of each network write.                  *)
(***************************************************************************)
\* frames a session's history holds at most
MaxQueued == 2

\* what goes into Send: the output of json.Marshal, which is compact, and
\* the bytes of an upstream frame as they came, which may hold a newline
\* between two tokens
MarshalledFrames == {<<"{", "a", "}">>, <<"{", "b", "}">>}
RawFrames == {<<"{", NL, "c", "}">>}
WireFrames == MarshalledFrames \cup RawFrames

\* writePump, lines 199-207: the first frame, then "\n" and a frame for
\* each of the n frames queued behind it
RECURSIVE Coalesce(_)
Coalesce(frames) ==
    IF Len(frames) = 1 THEN frames[1]
    ELSE frames[1] \o <<NL>> \o Coalesce(Tail(frames))

\* the value JSON.parse gives for a text it accepts: white space between
\* the tokens does not count
JSONValue(text) == SelectSeq(text, LAMBDA ch : ch \notin Space)

RECURSIVE ParsedLines(_)
ParsedLines(lines) ==
    IF lines = <<>> THEN <<>>
    ELSE LET cleanLine == TrimSpace(Head(lines))
         IN  (IF cleanLine # <<>> /\ Unmarshal(cleanLine)
              THEN <<JSONValue(cleanLine)>> ELSE <<>>)
             \o ParsedLines(Tail(lines))

\* WebSocketTester.parseMultipleJsonMessages: the lines that parse; when
\* there is none, the whole text when it parses (it throws otherwise:
\* no message)
parseMultipleJsonMessages(rawData) ==
    LET messages == ParsedLines(Split(TrimSpace(rawData)))
    IN  IF messages # <<>> THEN messages
        ELSE IF Unmarshal(TrimSpace(rawData))
        THEN <<JSONValue(TrimSpace(rawData))>>
        ELSE <<>>

\* a producer's non-blocking send of data on c.Send: Client.SendMessage
\* with the marshalled frame, forwardMessageToClients with the upstream
\* bytes; `queued` keeps what went into the channel
Enqueue(c, data) ==
    /\ panic = ""
    /\ c \in created
    /\ Len(queued[c]) < MaxQueued
    /\ SendMessage(c, data)
    /\ queued' = IF closeCount[c] = 0 /\ Len(Send[c]) < SendCap
                 THEN [queued EXCEPT ![c] = Append(@, data)]
                 ELSE queued
    /\ UNCHANGED <<created, hubClients, closeCount, Subscriptions,
                   useLocalNode, globalSubscriptions, cmd,
                   subscribeGoroutines, connVars, readerVars, hwVars,
                   postVars, tailVars, assetVars, orderVars, startVars,
                   serverVars, goVars, blockVars, ringVars, callVars,
                   lockVars, held, wire, pumpState>>

\* Hub.Run's Unregister case, lines 108-113: the client leaves Hub.Clients
\* and its Send is closed; what is buffered stays in the channel
HubRunUnregister(c) ==
    /\ panic = ""
    /\ c \in hubClients
    /\ HubUnregister(c)
    /\ UNCHANGED <<created, Send, Subscriptions, proxyVars, connVars,
                   readerVars, hwVars, moreVars>>

\* writePump, lines 189-194: a frame is received from Send; from a closed
\* and empty Send the receive fails, the close message is written and
\* writePump returns
ClientWritePumpReceive(c) ==
    /\ panic = ""
    /\ c \in created
    /\ pumpState[c] = "run"
    /\ held[c] = <<>>
    /\ IF Send[c] # <<>>
       THEN /\ held' = [held EXCEPT ![c] = <<Head(Send[c])>>]
            /\ Send' = [Send EXCEPT ![c] = Tail(@)]
            /\ UNCHANGED pumpState
       ELSE /\ closeCount[c] > 0
            /\ pumpState' = [pumpState EXCEPT ![c] = "done"]
            /\ UNCHANGED <<held, Send>>
    /\ UNCHANGED <<created, hubClients, closeCount, Subscriptions,
                   proxyVars, connVars, readerVars, hwVars, postVars,
                   tailVars, assetVars, orderVars, startVars, serverVars,
                   goVars, blockVars, ringVars, callVars, lockVars, wire,
                   queued>>

\* writePump, lines 196-211: the frame it holds and the len(c.Send) frames
\* queued by now go into one network write
ClientWritePumpWrite(c) ==
    /\ panic = ""
    /\ pumpState[c] = "run"
    /\ held[c] # <<>>
    /\ wire' = [wire EXCEPT ![c] = Append(@, Coalesce(held[c] \o Send[c]))]
    /\ Send' = [Send EXCEPT ![c] = <<>>]
    /\ held' = [held EXCEPT ![c] = <<>>]
    /\ UNCHANGED <<created, hubClients, closeCount, Subscriptions,
                   proxyVars, connVars, readerVars, hwVars, postVars,
                   tailVars, assetVars, orderVars, startVars, serverVars,
                   goVars, blockVars, ringVars, callVars, lockVars,
                   queued, pumpState>>

\* writePump, lines 196-199, 209-211 and 213-217: NextWriter, the writer's
\* Close or the ping fails on a socket that is gone, and writePump returns;
\* the frame it holds is not written, what is queued stays in Send
ClientWritePumpError(c) ==
    /\ panic = ""
    /\ c \in created
    /\ pumpState[c] = "run"
    /\ pumpState' = [pumpState EXCEPT ![c] = "done"]
    /\ held' = [held EXCEPT ![c] = <<>>]
    /\ UNCHANGED <<hubVars, proxyVars, connVars, readerVars, hwVars,
                   postVars, tailVars, assetVars, orderVars, startVars,
                   serverVars, goVars, blockVars, ringVars, callVars,
                   lockVars, wire, queued>>

\* the sessions' queues: producers, the hub that closes them, writePump
NextWriter ==
    \/ \E c \in ClientPool : ServeWS(c)
    \/ \E c \in ClientPool, data \in WireFrames : Enqueue(c, data)
    \/ \E c \in ClientPool : HubRunUnregister(c)
    \/ \E c \in ClientPool : ClientWritePumpReceive(c)
    \/ \E c \in ClientPool : ClientWritePumpWrite(c)
    \/ \E c \in ClientPool : ClientWritePumpError(c)

SpecWriter == InitLocal /\ [][NextWriter]_vars

(***************************************************************************)
(* Proxy.GetStats next to a publish.  Both take stats.mu and subMu, and    *)
(* each keeps the first lock while it takes the second: their steps are    *)
(* the acquisitions.                                                       *)
(***************************************************************************)
\* what ProxyStats.MessagesForwarded counts up to
MaxForwarded == 2

\* forwardMessageToClients, line 596: the sends that succeed
ForwardedCount(channel) ==
    Sum([c \in ClientPool |-> Delivered(c, channel)], ClientPool)

\* generateAllMidsFromLocalNode, lines 166-219, and forwardMessageToClients,
\* lines 577-623: the publish up to `if forwardedCount > 0`; subMu, locked
\* at line 578, is released by the deferred Unlock when the function
\* returns: at once when nothing was forwarded, after the statistics
\* otherwise
GenerateAllMidsLock ==
    /\ panic = ""
    /\ useLocalNode
    /\ publishPC = "idle"
    /\ \E k \in Matching("allMids") : globalSubscriptions[k].Clients # {}
    /\ PricedCoins # {}
    /\ messagesForwarded + ForwardedCount("allMids") <= MaxForwarded
    /\ forwardMessageToClients("allMids", AllMidsFrame(PricedCoins))
    /\ forwardedCount' = IF panic' = "" THEN ForwardedCount("allMids") ELSE 0
    /\ publishPC' = IF forwardedCount' > 0 THEN "stats" ELSE "idle"
    /\ UNCHANGED <<created, hubClients, closeCount, Subscriptions,
                   useLocalNode, subscribeGoroutines, connVars, readerVars,
                   hwVars, postVars, tailVars, assetVars, orderVars,
                   startVars, serverVars, goVars, blockVars, ringVars,
                   callVars, wireVars, statsPC, messagesForwarded>>

\* forwardMessageToClients, lines 624-628 and the deferred Unlock:
\* stats.mu.Lock() waits for GetStats to release its read lock
ForwardStats ==
    /\ panic = ""
    /\ publishPC = "stats"
    /\ statsPC = "idle"
    /\ messagesForwarded' = messagesForwarded + forwardedCount
    /\ forwardedCount' = 0
    /\ publishPC' = "idle"
    /\ UNCHANGED <<hubVars, proxyVars, connVars, readerVars, hwVars,
                   postVars, tailVars, assetVars, orderVars, startVars,
                   serverVars, goVars, blockVars, ringVars, callVars,
                   wireVars, statsPC>>

\* GetStats, lines 284-288: stats.mu.RLock(), the copy, GetClientCount
GetStatsLock ==
    /\ panic = ""
    /\ statsPC = "idle"
    /\ statsPC' = "sub"
    /\ UNCHANGED <<hubVars, proxyVars, connVars, readerVars, hwVars,
                   postVars, tailVars, assetVars, orderVars, startVars,
                   serverVars, goVars, blockVars, ringVars, callVars,
                   wireVars, publishPC, forwardedCount, messagesForwarded>>

\* GetStats, lines 290-294: subMu.RLock() waits for the publish to release
\* subMu; then the read, both unlocks and the return
GetStatsSub ==
    /\ panic = ""
    /\ statsPC = "sub"
    /\ publishPC = "idle"
    /\ statsPC' = "idle"
    /\ UNCHANGED <<hubVars, proxyVars, connVars, readerVars, hwVars,
                   postVars, tailVars, assetVars, orderVars, startVars,
                   serverVars, goVars, blockVars, ringVars, callVars,
                   wireVars, publishPC, forwardedCount, messagesForwarded>>

\* the proxy in local node mode with a stats reader; a handler that takes
\* subMu waits while the publish holds it
NextStats ==
    \/ \E c \in ClientPool : ServeWS(c)
    \/ \E c \in ClientPool : WritePump(c)
    \/ publishPC = "idle"
       /\ \E c \in ClientPool : HandleSubscribe(c, AllMidsSub)
    \/ SubscribeReply
    \/ \E coin \in Coins : ProcessOrders(coin)
    \/ GenerateAllMidsLock
    \/ ForwardStats
    \/ GetStatsLock
    \/ GetStatsSub

SpecStats == InitLocal /\ [][NextStats]_vars

(***************************************************************************)
(* The proxy in local node mode with trades subscriptions for two coins;   *)
(* the reader has trades of ETH only.                                      *)
(***************************************************************************)
TradesBTCSub == SubscriptionRequest("trades", "", "BTC")
TradeSubs == {TradesETHSub, TradesBTCSub}

NextCoins ==
    \/ \E c \in ClientPool : ServeWS(c)
    \/ \E c \in ClientPool : WritePump(c)
    \/ \E c \in ClientPool, sub \in TradeSubs : HandleSubscribe(c, sub)
    \/ SubscribeReply
    \/ BlockingSend
    \/ \E c \in ClientPool, sub \in TradeSubs : HandleUnsubscribe(c, sub)
    \/ UnsubscribeReply
    \/ \E coin \in Coins : ProcessOrders(coin)
    \/ \E coin \in Coins : GenerateTrades(coin)

SpecCoins == InitLocal /\ [][NextCoins]_vars

(***************************************************************************)
(* Properties.                                                             *)
(***************************************************************************)
\* the clients of the registry entry of key k, {} when there is no entry
Members(k) ==
    IF k \in DOMAIN globalSubscriptions THEN globalSubscriptions[k].Clients
    ELSE {}

InNoEntry(registry, c) == \A k \in DOMAIN registry : c \notin registry[k].Clients

Channels == {"allMids", "trades"}

\* a step that is one run of forwardMessageToClients for the channel
PublishOf(channel) ==
    \/ channel = "allMids" /\ GenerateAllMids
    \/ channel = "trades" /\ \E coin \in Coins : GenerateTrades(coin)
    \/ \E frame \in UpstreamFrames :
           frame[1] = channel /\ HandleHyperliquidMessage(frame)

\* C1: in every reachable state of the proxy every registry entry has at
\* least one client: the entry goes in the step that removes its last client
C1_NoEmptyEntry ==
    \A k \in DOMAIN globalSubscriptions : globalSubscriptions[k].Clients # {}

\* remote mode: a client that had subscribed to a key has just run the
\* critical section of its unsubscribe and no entry is left for the key
C1_Witness ==
    /\ ~useLocalNode
    /\ cmd.pc = "unsubscribe"
    /\ Pending = 0
    /\ createSubscriptionKey(cmd.sub) \in DOMAIN Subscriptions[cmd.c]
    /\ createSubscriptionKey(cmd.sub) \notin DOMAIN globalSubscriptions
    /\ DOMAIN globalSubscriptions # {}

\* C2: a client whose queue is full when a publish tries to deliver to it is
\* in no registry entry, of whatever channel, when that publish ends
C2_EvictedFromEveryEntry ==
    [][\A channel \in Channels, c \in ClientPool :
          (/\ PublishOf(channel)
           /\ MemberKeys(c, channel) # {}
           /\ closeCount[c] = 0
           /\ Room(c) = 0
           /\ panic' = "")
          => InNoEntry(globalSubscriptions', c)]_vars

\* C3: a publish completes and enqueues the payload to every subscribed
\* client whose queue has room, whatever the other queues are
C3_PublishCompletes ==
    [][\A channel \in Channels :
          PublishOf(channel)
          => /\ panic' = ""
             /\ \A c \in ClientPool :
                    (MemberKeys(c, channel) # {} /\ Room(c) > 0)
                    => Len(Send'[c]) > Len(Send[c])]_vars

\* C4: a client that has been unregistered has its queue closed and is in
\* no registry entry
C4_UnregisteredInNoEntry ==
    \A c \in created \ hubClients :
        /\ closeCount[c] = 1
        /\ InNoEntry(globalSubscriptions, c)

\* C5: when no command and no upstream call is in progress, the clients of
\* an entry are the clients whose last command on the key was subscribe
\* (Client.Subscriptions lists exactly these keys); the one client whose own
\* upstream subscribe failed and was rolled back is left aside
C5_LastCommandWins ==
    (cmd = Idle /\ Pending = 0)
    => \A k \in Keys :
           LET last == {c \in ClientPool : k \in DOMAIN Subscriptions[c]}
           IN  \/ Members(k) = last
               \/ Members(k) = {} /\ Cardinality(last) <= 1

\* C6: subscribe(c, s) on a registry without an entry for key(s) makes the
\* entry {c}, and unsubscribe(c, s) on the entry {c} leaves no entry
C6_SubscribeThenUnsubscribe ==
    [][\A c \in ClientPool, sub \in Subs :
          LET key == createSubscriptionKey(sub)
          IN  /\ (HandleSubscribe(c, sub) /\ key \notin DOMAIN globalSubscriptions)
                 => (/\ key \in DOMAIN globalSubscriptions'
                     /\ globalSubscriptions'[key].Clients = {c})
              /\ (HandleUnsubscribe(c, sub) /\ Members(key) = {c})
                 => key \notin DOMAIN globalSubscriptions']_vars

\* local node mode, nothing published yet: a client that subscribed to a
\* key nobody else holds has just run the critical section of its
\* unsubscribe, and the entry is gone
C6_Witness ==
    /\ useLocalNode
    /\ \A coin \in Coins : latestTrades[coin] = <<>>
    /\ cmd.pc = "unsubscribe"
    /\ LET key == createSubscriptionKey(cmd.sub)
       IN  /\ key \in DOMAIN Subscriptions[cmd.c]
           /\ key \notin DOMAIN globalSubscriptions
           /\ \A d \in ClientPool \ {cmd.c} : key \notin DOMAIN Subscriptions[d]

C8_ResubscribedOnce ==
    (/\ dials = 2
     /\ isConnected
     /\ conn = 2
     /\ resubscribers = {}
     /\ outgoingMessages = <<>>)
    => \A k \in trackedAtFailure \cap DOMAIN subscriptions : written[k] = 1

\* C9: the queue of a HyperWS client is closed at most once
C9_ClosedAtMostOnce ==
    \A c \in ClientPool : hwCloseCount[c] <= 1

\* C10: a client whose queue is full when a publish tries to deliver to it
\* is out of Hub.Clients and has its queue closed when that publish ends
C10_SaturatedIsUnregistered ==
    [][\A channel \in Channels, c \in ClientPool :
          (/\ PublishOf(channel)
           /\ MemberKeys(c, channel) # {}
           /\ closeCount[c] = 0
           /\ Room(c) = 0
           /\ panic' = "")
          => (c \notin hubClients' /\ closeCount'[c] > 0)]_vars

\* C11: a malformed frame (invalid JSON, unknown method, subscribe or
\* unsubscribe without subscription, post without request or id) makes the
\* handler reply to the sender with an error frame and nothing else: the
\* step that takes the frame and the step that replies leave the registry,
\* every client's owned keys, the connector's tracked subscriptions and
\* the queues of the other clients as they are, and the reply is enqueued
\* when the sender's queue has room.  (A reply to a client that was
\* unregistered in between is a send on a closed channel: the process
\* panics and there is no state left to compare.)
C11_MalformedRepliesOnly ==
    [][/\ \A c \in ClientPool, frame \in MalformedFrames :
              HandleMalformed(c, frame)
              => /\ cmd'.pc = "reply"
                 /\ cmd'.c = c
                 /\ cmd'.frame[1] = "error"
                 /\ UNCHANGED <<Send, globalSubscriptions, Subscriptions,
                                subscriptions>>
       /\ (Reply /\ panic' = "")
          => /\ \A d \in ClientPool \ {cmd.c} : Send'[d] = Send[d]
             /\ Room(cmd.c) > 0
                => Send'[cmd.c] = Append(Send[cmd.c], cmd.frame)
             /\ Room(cmd.c) = 0 => Send'[cmd.c] = Send[cmd.c]
             /\ UNCHANGED <<globalSubscriptions, Subscriptions,
                            subscriptions>>]_vars

\* a client that holds a subscription has the error reply to its subscribe
\* without subscription in its queue, the other client is registered and
\* has nothing in its queue, and the registry has its entry
C11_Witness ==
    /\ cmd = Idle
    /\ panic = ""
    /\ \E c \in hubClients : \E d \in hubClients \ {c} :
           /\ Send[c] = <<ErrorFrame("Missing subscription details")>>
           /\ Send[d] = <<>>
           /\ DOMAIN Subscriptions[c] # {}
           /\ \E k \in DOMAIN globalSubscriptions : c \in Members(k)

\* C12: when the upstream subscribe for a new entry fails, the goroutine
\* sends the error to the client that created the entry and to no other,
\* and every other client that joined the entry meanwhile is still in a
\* live entry for the key afterwards
C12_RollbackOriginOnly ==
    [][\A c \in ClientPool, sub \in Subs :
          SubscribeGoroutine(c, sub)
          => LET key == createSubscriptionKey(sub)
             IN  \A d \in ClientPool \ {c} :
                     /\ Send'[d] = Send[d]
                     /\ d \in Members(key)
                        => /\ key \in DOMAIN globalSubscriptions'
                           /\ d \in globalSubscriptions'[key].Clients]_vars

\* the ids of the PostRequest calls that have created their slot and have
\* not returned
PostInFlight ==
    IF cmd.pc \in {"postSend", "postWait"} THEN {cmd.requestID} ELSE {}

\* C13: the pending map holds the ids of the calls in flight and no other,
\* so a call that has returned, whichever way, has left no slot; and every
\* call in flight returns (as long as the process runs)
C13_PostRequestReturns ==
    /\ [](DOMAIN postRequests = PostInFlight)
    /\ (PostInFlight # {}) ~> (PostInFlight = {} \/ panic # "")

\* both calls have returned, one with the response and one on a timer: the
\* client has the response of the first in its queue, the handler is about
\* to reply the error of the second, and the map is empty
C13_Witness ==
    /\ nextRequestID = 3
    /\ closedChans = {1, 2}
    /\ postRequests = EmptyMap
    /\ cmd.pc = "reply"
    /\ cmd.frame = PostErrorFrame("request timeout")
    /\ Send[cmd.c] = <<PostResponseFrame(PostResponse(1))>>

\* C14: while a post request of one client waits for its response, the
\* hub takes registrations and the commands of the other registered
\* clients are handled: the handler can take their unsubscribe, their
\* subscribe and their post frames (as far as the bounds of the model let
\* a new upstream call or post request start)
C14_PostBlocksOnlyCaller ==
    (PostInFlight # {} /\ panic = "")
    => /\ \A d \in ClientPool \ created : ENABLED ServeWS(d)
       /\ \A d \in hubClients \ {cmd.c} :
              /\ ENABLED HandleUnsubscribe(d, AllMidsSub)
              /\ Pending < MaxPending
                 => ENABLED HandleSubscribe(d, AllMidsSub)
              /\ nextRequestID <= MaxRequests
                 => ENABLED HandlePostRequest(d)

\* C15: in local node mode a post frame is answered with an error and
\* nothing else: the handler that takes a well-formed post frame goes on
\* to reply "not supported" to the sender, no slot is created in the
\* pending map, no id is drawn and nothing is queued for the upstream
\* feed; the reply is enqueued to the sender when its queue has room.
\* HyperWS, which has the local reader only, answers a post frame with
\* its unknown-method error
C15_PostUnsupportedLocally ==
    [][/\ \A c \in ClientPool :
              HandlePostRequest(c)
              => /\ cmd'.pc = "reply"
                 /\ cmd'.c = c
                 /\ cmd'.frame = PostErrorFrame(
                        "POST requests not supported in local node mode")
                 /\ postRequests' = EmptyMap
                 /\ outgoingMessages' = <<>>
                 /\ UNCHANGED <<nextRequestID, Send>>
       /\ (Reply /\ cmd.frame[1] = "post" /\ panic' = "")
          => /\ \A d \in ClientPool \ {cmd.c} : Send'[d] = Send[d]
             /\ Room(cmd.c) > 0
                => Send'[cmd.c] = Append(Send[cmd.c], cmd.frame)
             /\ postRequests' = EmptyMap
             /\ outgoingMessages' = <<>>
       /\ MalformedError(PostFrame) = ""
       /\ hwMalformedError(PostFrame) # ""]_vars

\* local node mode: a registered client has the "not supported" reply to
\* its post frame in its queue, and no slot was ever created
C15_Witness ==
    /\ useLocalNode
    /\ cmd = Idle
    /\ postRequests = EmptyMap
    /\ nextRequestID = 1
    /\ \E c \in hubClients :
           Send[c] = <<PostErrorFrame(
                         "POST requests not supported in local node mode")>>

\* the number of bytes of the file up to and with its last newline
TerminatedLen(file) ==
    IF \A i \in 1..Len(file) : file[i] # NL THEN 0
    ELSE CHOOSE j \in 1..Len(file) :
             /\ file[j] = NL
             /\ \A h \in (j + 1)..Len(file) : file[h] # NL

\* the records of the newline-terminated lines of the file, in order
RECURSIVE TerminatedRecords(_)
TerminatedRecords(file) ==
    IF TerminatedLen(file) = 0 THEN <<>>
    ELSE LET i == CHOOSE j \in 1..Len(file) :
                      /\ file[j] = NL
                      /\ \A h \in 1..(j - 1) : file[h] # NL
         IN  <<SubSeq(file, 1, i - 1)>>
             \o TerminatedRecords(SubSeq(file, i + 1, Len(file)))

\* C16: after a scan of the file as it is on disk (after the first chunk,
\* which may end anywhere in a line, or after the second) the offset is the
\* number of bytes up to and with the last newline, and the lines processed
\* so far are the newline-terminated lines, each once: a trailing line
\* without its newline is neither processed nor counted, and the scan after
\* the second chunk brings the offset to the end of the file
C16_OnlyTerminatedLinesAdvance ==
    /\ scanned => /\ lastReadFiles.pos = TerminatedLen(logFile)
                  /\ blocks = TerminatedRecords(logFile)
    /\ hwScanned => /\ hwLastReadFiles.pos = TerminatedLen(logFile)
                    /\ hwBlocks = TerminatedRecords(logFile)

\* the trades of a symbol in a table of trades
TradesOf(trades, symbol) ==
    IF symbol \in DOMAIN trades THEN trades[symbol] ELSE <<>>

\* `after` is `before` with exactly one more trade, at the end of the
\* trades of `coin`, and that trade is made of the order and the block time
OneTradeDerived(before, after, coin, order, blockTime) ==
    LET new == TradesOf(after, coin)
        trade == new[Len(new)]
    IN  /\ DOMAIN after = DOMAIN before \cup {coin}
        /\ \A k \in DOMAIN before : k # coin => after[k] = before[k]
        /\ Len(new) = Len(TradesOf(before, coin)) + 1
        /\ SubSeq(new, 1, Len(new) - 1) = TradesOf(before, coin)
        /\ trade.Coin = coin
        /\ trade.Side = (IF order.IsBuy THEN "buy" ELSE "sell")
        /\ trade.Px = order.Price
        /\ trade.Sz = order.Size
        /\ trade.Time * 1000000 <= blockTime.sec * 1000000000 + blockTime.nano
        /\ blockTime.sec * 1000000000 + blockTime.nano
               < (trade.Time + 1) * 1000000

C18_LookupOrPlaceholder ==
    \A id \in AssetIDs :
        /\ id \in DOMAIN perpAssets =>
               getAssetSymbol(id) = perpAssets[id].Name
        /\ (id \notin DOMAIN perpAssets /\ id \in DOMAIN spotAssets) =>
               getAssetSymbol(id) = spotAssets[id].Name
        /\ (id \notin DOMAIN perpAssets /\ id \notin DOMAIN spotAssets) =>
               getAssetSymbol(id) \in {"@" \o Itoa(id), "ASSET_" \o Itoa(id)}

\* C19: a refresh one of whose two queries fails leaves the three tables
\* as they were before it, and a refresh is attempted again afterwards,
\* also when the failed refresh was the first one, made by Start
C19_FailedRefreshChangesNothing ==
    /\ [][\A metaResp \in MetaResponses, spotResp \in SpotMetaResponses :
              (/\ \/ AssetFetcherStart(metaResp, spotResp)
                  \/ PeriodicUpdate(metaResp, spotResp)
               /\ ~metaResp.ok \/ ~spotResp.ok)
              => UNCHANGED <<perpAssets, spotAssets, assetsByName>>]_vars
    /\ [](fetcherState # "new" =>
              \E metaResp \in MetaResponses, spotResp \in SpotMetaResponses :
                  ENABLED PeriodicUpdate(metaResp, spotResp))

\* C20: once Start has returned, it has returned an error, and not nil,
\* if the proxy is in local node mode and the log root cannot be opened, or
\* in remote mode and the first connection to the upstream failed
C20_StartReportsFailure ==
    (/\ startResult # "none"
     /\ \/ useLocalNode /\ ~logRoot
        \/ ~useLocalNode /\ ~dialOK)
    => startResult = "error"

\* the last k elements of a sequence, all of them when it has fewer
LastK(seq, k) ==
    [i \in 1..Min(k, Len(seq)) |-> seq[Len(seq) - Min(k, Len(seq)) + i]]

\* C21: in local node mode the initial data of an allMids subscription is
\* the whole price cache (every symbol in it, with its latest price), and
\* the initial data of a trades subscription for a coin is the last 5 trades
\* of the coin, all of them when there are fewer, oldest first
C21_InitialDataIsCurrentState ==
    /\ InitialAllMids = readerPrices
    /\ hwInitialAllMids = hwReaderPrices
    /\ \A coin \in DOMAIN readerTrades :
           LatestTradesOf(readerTrades, coin, 5) = LastK(readerTrades[coin], 5)
    /\ \A coin \in DOMAIN hwReaderTrades :
           LatestTradesOf(hwReaderTrades, coin, 5)
               = LastK(hwReaderTrades[coin], 5)

\* C22: the clients registered in the hub are never more than max_clients
C22_AtMostMaxClients == Cardinality(hubClients) <= MaxClients

\* C23: a data frame of a channel for which the registry has no entry
\* changes nothing: the registry with every entry's cached payload and every
\* client's queue are unchanged, no send succeeded (the counter of forwarded
\* messages gets nothing added), nothing panics
C23_PublishWithoutEntryIsNoOp ==
    [][\A frame \in UpstreamFrames :
           (/\ frame[1] \in Channels
            /\ \A k \in DOMAIN globalSubscriptions :
                   globalSubscriptions[k].Subscription.Type # frame[1]
            /\ HandleHyperliquidMessage(frame))
           => /\ UNCHANGED <<globalSubscriptions, Send, cmd, panic>>
              /\ \A c \in ClientPool : Delivered(c, frame[1]) = 0]_vars

\* C23: the registry has an entry for allMids with a client whose queue has
\* room and that entry has a cached payload, there is no entry for trades,
\* and a trades frame can arrive
C23_Witness ==
    /\ panic = ""
    /\ \E k \in DOMAIN globalSubscriptions :
           /\ globalSubscriptions[k].Subscription.Type = "allMids"
           /\ globalSubscriptions[k].LastMessage # Nil
           /\ \E c \in globalSubscriptions[k].Clients : Room(c) > 0
    /\ \A k \in DOMAIN globalSubscriptions :
           globalSubscriptions[k].Subscription.Type # "trades"
    /\ ENABLED HandleHyperliquidMessage(<<"trades", "ETH">>)

\* C24: unsubscribe takes the session out of the entry; when that leaves
\* the entry without session the entry is pruned and, in remote mode, an
\* unsubscribe for the subscription is issued to the upstream; in local
\* node mode no subscribe and no unsubscribe is ever issued to the upstream
C24_UnsubscribeIssuedUpstream ==
    /\ [][\A c \in ClientPool, sub \in Subs :
             LET key == createSubscriptionKey(sub)
                 last == /\ key \in DOMAIN globalSubscriptions
                         /\ globalSubscriptions[key].Clients \ {c} = {}
             IN  HandleUnsubscribeGo(c, sub) =>
                     /\ key \in DOMAIN globalSubscriptions' =>
                            /\ c \notin globalSubscriptions'[key].Clients
                            /\ globalSubscriptions'[key].Clients # {}
                     /\ last => key \notin DOMAIN globalSubscriptions'
                     /\ (last /\ ~useLocalNode) =>
                            unsubscribeGoroutines'[sub] =
                                unsubscribeGoroutines[sub] + 1]_vars
    /\ [][\A sub \in Subs :
             UnsubscribeUpstream(sub) =>
                 /\ Len(outgoingMessages') = Len(outgoingMessages) + 1
                 /\ outgoingMessages'[Len(outgoingMessages')] =
                        <<"unsubscribe", createSubscriptionKey(sub)>>]_vars
    /\ [](useLocalNode =>
              /\ Pending = 0
              /\ Sum(unsubscribeGoroutines, Subs) = 0
              /\ subscriptions = EmptyMap
              /\ outgoingMessages = <<>>)

LinesOf(file) ==
    LET lines == Split(file) IN SubSeq(lines, 1, Len(lines) - 1)

\* the orders of the order actions of the bundles that decode, in order
RECURSIVE OrderActionsOf(_)
OrderActionsOf(bundles) ==
    IF bundles = <<>> THEN <<>>
    ELSE LET b == Head(bundles)
             actions == IF Len(b) >= 2 /\ b[2].ok THEN b[2].SignedActions
                        ELSE <<>>
             orders == [i \in 1..Len(actions) |->
                           IF actions[i].Type = "order"
                           THEN actions[i].Orders ELSE <<>>]
         IN  (IF Len(orders) = 0 THEN <<>>
              ELSE IF Len(orders) = 1 THEN orders[1]
              ELSE orders[1] \o orders[2])
             \o OrderActionsOf(Tail(bundles))

\* C27: a scan of the file hands processBlock every line that parses, in
\* order, whatever garbled lines stand before it; and once the loop over
\* the bundles of a block is over, processOrders has been handed the
\* orders of every order action of every bundle that decodes, in order,
\* whatever other actions and bundles stand before them
C27_BadLinesAndActionsSkipped ==
    /\ scanned => blocks = SelectSeq(LinesOf(logFile), Unmarshal)
    /\ bundleIndex = Len(block) => ordersSeen = OrderActionsOf(block)

\* a garbled line before a record, scanned; a bundle that does not decode
\* and a cancel before an order action, processed
C27_Witness ==
    /\ scanned
    /\ Len(LinesOf(logFile)) = 2
    /\ ~Unmarshal(LinesOf(logFile)[1])
    /\ Unmarshal(LinesOf(logFile)[2])
    /\ Len(block) = 2
    /\ bundleIndex = 2
    /\ Len(block[1]) = 2 /\ Len(block[2]) = 2
    /\ ~block[1][2].ok
    /\ Len(block[2][2].SignedActions) = 2
    /\ block[2][2].SignedActions[1].Type = "cancelByCloid"
    /\ block[2][2].SignedActions[2].Type = "order"

\* C28: after a refresh whose two queries succeed, the three tables hold
\* the records of the two universes just fetched and no other: an id or a
\* symbol that is not in them is not found any more
C28_RefreshReplacesTables ==
    [][\A metaResp \in MetaResponses, spotResp \in SpotMetaResponses :
           (/\ \/ AssetFetcherStart(metaResp, spotResp)
               \/ PeriodicUpdate(metaResp, spotResp)
            /\ metaResp.ok /\ spotResp.ok)
           => LET perps == metaResp.Universe
                  pairs == spotResp.Universe
              IN  /\ DOMAIN perpAssets' = {i - 1 : i \in 1..Len(perps)}
                  /\ DOMAIN spotAssets' =
                         {spotOffset + pairs[i].Index : i \in 1..Len(pairs)}
                  /\ DOMAIN assetsByName' =
                         {perps[i] : i \in 1..Len(perps)} \cup
                         {assetName(spotResp.Tokens, pairs[i]) :
                              i \in 1..Len(pairs)}]_vars

\* the numbers of the first n orders of the stream that are for the asset,
\* in order
StreamOrdersOf(n, asset) ==
    IF asset = 1 THEN (IF n >= 1 THEN <<1>> ELSE <<>>)
    ELSE [j \in 1..(IF n >= 1 THEN n - 1 ELSE 0) |-> j + 1]

\* the ring of a symbol after n orders of the stream: the last `capacity`
\* trades derived for the symbol, in the order of their derivation
RingAfter(n, asset, symbol, capacity) ==
    LET orders == LastK(StreamOrdersOf(n, asset), capacity)
    IN  [j \in 1..Len(orders) |->
             WsTrade(symbol, StreamOrder(orders[j]), StreamTime)]

\* a reader's rings and prices after n orders of the stream, for rings of
\* the capacity
RingsAfter(trades, prices, n, symbol0, symbol1, capacity) ==
    /\ DOMAIN trades = (IF n >= 1 THEN {symbol1} ELSE {})
                            \cup (IF n >= 2 THEN {symbol0} ELSE {})
    /\ DOMAIN prices = DOMAIN trades
    /\ \A k \in DOMAIN trades :
           /\ Len(trades[k]) <= capacity
           /\ trades[k] = RingAfter(n, IF k = symbol1 THEN 1 ELSE 0, k,
                                    capacity)
           /\ prices[k] = trades[k][Len(trades[k])].Px

\* C29, as stated: the ring of every symbol, in either reader, is the
\* 1000 most recent trades of the symbol
C29_RingOfThousand ==
    /\ RingsAfter(readerTrades, readerPrices, ordersDone,
                  getAssetSymbol(0), getAssetSymbol(1), maxTrades)
    /\ RingsAfter(hwReaderTrades, hwReaderPrices, hwOrdersDone,
                  getAssetName(0), getAssetName(1), maxTrades)

\* C29, amended: the ring of a symbol never holds more than the capacity
\* of its reader, 1000 trades in the proxy and 100 in HyperWS; it is the
\* most recent trades derived for the symbol, as many as the capacity, in
\* the order of their derivation; the price of the symbol is the price of
\* the newest trade of the ring
C29_RingHoldsMostRecent ==
    /\ RingsAfter(readerTrades, readerPrices, ordersDone,
                  getAssetSymbol(0), getAssetSymbol(1), maxTrades)
    /\ RingsAfter(hwReaderTrades, hwReaderPrices, hwOrdersDone,
                  getAssetName(0), getAssetName(1), hwMaxTrades)

\* both readers have evicted trades from a full ring
C29_Witness ==
    /\ ordersDone = maxTrades + RingExtra
    /\ hwOrdersDone = hwMaxTrades + RingExtra
    /\ Len(readerTrades[getAssetSymbol(0)]) = maxTrades
    /\ Len(hwReaderTrades[getAssetName(0)]) = hwMaxTrades


\* the request ids PostRequest has assigned so far: those of the slots, of
\* the channels closed by a call that has returned, and of the callers
AssignedIDs ==
    (DOMAIN postRequests \cup closedChans
        \cup {calls[g].requestID : g \in Callers}) \ {0}

\* the callers inside PostRequest, past its critical section
CallsInFlight == {g \in Callers : calls[g].pc \in {"send", "wait"}}

\* C30: a call of PostRequest takes the counter's value as its id, which is
\* greater than every id assigned before, and advances the counter; two
\* calls in flight never hold the same id; and a response of the upstream
\* goes to the slot of the id it carries and to no other, so a caller only
\* ever receives the response that carries its own id
C30_RequestIdsUniqueAndRouted ==
    /\ [][\A g \in Callers :
             (calls[g].pc = "idle" /\ calls'[g].pc = "send")
             => /\ calls'[g].requestID = nextRequestID
                /\ \A id \in AssignedIDs : calls'[g].requestID > id
                /\ nextRequestID' > nextRequestID]_vars
    /\ [][nextRequestID' >= nextRequestID]_vars
    /\ [](\A g, h \in CallsInFlight :
             g # h => calls[g].requestID # calls[h].requestID)
    /\ [](\A id \in AssignedIDs : id < nextRequestID)
    /\ [][\A id \in 1..MaxRequests :
             (id \in postDelivering /\ postDelivering' = {})
             => \A other \in DOMAIN postRequests \ {id} :
                    /\ other \in DOMAIN postRequests'
                    /\ postRequests'[other] = postRequests[other]]_vars
    /\ [](\A id \in DOMAIN postRequests :
             postRequests[id] \in {<<>>, <<PostResponse(id)>>})
    /\ [](\A g \in Callers :
             calls[g].response \in
                 {<<>>, <<"error", "send timeout">>,
                  <<"error", "request timeout">>,
                  PostResponse(calls[g].requestID)})

\* two calls are inside PostRequest at the same time, with ids 1 and 2; the
\* response to 2 came first and the second caller has returned with it,
\* while the slot of the first is still empty
C30_Witness ==
    /\ calls["g1"] = [pc |-> "wait", requestID |-> 1, response |-> <<>>]
    /\ calls["g2"] = [pc |-> "idle", requestID |-> 2,
                      response |-> PostResponse(2)]
    /\ postRequests = MapPut(EmptyMap, 1, <<>>)
    /\ closedChans = {2}
    /\ panic = ""


\* what the receiver recovers from the network writes of a session, in
\* order
RECURSIVE Recovered(_)
Recovered(writes) ==
    IF writes = <<>> THEN <<>>
    ELSE parseMultipleJsonMessages(Head(writes)) \o Recovered(Tail(writes))

RECURSIVE ValuesOf(_)
ValuesOf(frames) ==
    IF frames = <<>> THEN <<>>
    ELSE <<JSONValue(Head(frames))>> \o ValuesOf(Tail(frames))

\* the frames of a session that are no longer in Send nor with writePump
TakenFrames(c) ==
    SubSeq(queued[c], 1, Len(queued[c]) - Len(Send[c]) - Len(held[c]))

\* C31: what the receiver splits out of a session's network writes is, frame
\* by frame and in order, what writePump has taken out of the queue and
\* written; and once the queue is closed and writePump has returned, that
\* is every frame that went into the queue
C31_WrittenOnceInOrder ==
    \A c \in ClientPool :
        /\ Recovered(wire[c]) = ValuesOf(TakenFrames(c))
        /\ (closeCount[c] > 0 /\ pumpState[c] = "done")
           => Recovered(wire[c]) = ValuesOf(queued[c])


\* C32: no step of the proxy sends on a client's Send after Hub.Run has
\* closed it: the runtime panic of such a send never happens, whichever way
\* an unregister interleaves with a publish, the payload delivered at
\* subscribe time, the subscription responses, the post responses and the
\* error replies (in local node mode a client's Send is the only channel
\* that is ever closed)
C32_NoSendOnClosedQueue ==
    panic # "send on closed channel"


\* C33: a call of GetStats and a publish that are both under way never
\* wait for each other: whenever GetStats holds stats.mu and the publish
\* holds subMu, one of the two can take the lock it needs next, so both
\* complete
C33_StatsAndPublishComplete ==
    (panic = "" /\ statsPC = "sub" /\ publishPC = "stats")
    => (ENABLED GetStatsSub \/ ENABLED ForwardStats)


\* C34: the publish of a trade of a coin enqueues nothing to a client that
\* is not in the entry of the trades subscription for that coin, whatever
\* other trades subscriptions the client holds, and enqueues the trade at
\* most once to any client
C34_TradeOnlyToItsCoin ==
    [][\A coin \in Coins :
          GenerateTrades(coin)
          => LET key == createSubscriptionKey(
                            SubscriptionRequest("trades", "", coin))
             IN  \A c \in ClientPool :
                     /\ c \notin Members(key) => Send'[c] = Send[c]
                     /\ Len(Send'[c]) <= Len(Send[c]) + 1]_vars


\* the id a post frame of the proxy carries: the third field of an error
\* frame, the id of the response in a response frame
PostFrameID(frame) == IF frame[2][1] = "error" THEN frame[3] ELSE frame[2][2]

\* C35: the frame handlePostRequest replies with carries the id of the post
\* frame it answers, on every path: the errors it finds itself, the errors
\* PostRequest returns (send timeout, request timeout) and the response
C35_PostReplyCarriesRequestID ==
    /\ [][\A c \in ClientPool, id \in PostIDs :
             (HandlePostRequestID(c, id) /\ cmd'.pc = "reply")
             => PostFrameID(cmd'.frame) = id]_vars
    /\ [][(cmd.pc \in {"postSend", "postWait"} /\ cmd'.pc = "reply")
          => PostFrameID(cmd'.frame) = cmd.id]_vars
    /\ [][(Reply /\ cmd.frame[1] = "post" /\ panic' = "" /\ Room(cmd.c) > 0)
          => Send'[cmd.c] = Append(Send[cmd.c], cmd.frame)]_vars


\* C36: in remote mode, when the command handler is idle and no goroutine
\* of handleSubscribe or handleUnsubscribe is pending, the keys the
\* connector tracks are the keys of the registry
C36_TrackedEqualsRegistry ==
    (/\ ~useLocalNode
     /\ panic = ""
     /\ cmd = Idle
     /\ Pending = 0
     /\ Sum(unsubscribeGoroutines, Subs) = 0)
    => DOMAIN subscriptions = DOMAIN globalSubscriptions


(***************************************************************************)
(* Log files with blank lines and with lines surrounded by whitespace,     *)
(* written in two chunks and scanned by both readers.                      *)
(***************************************************************************)
\* lines of a padded log file at most
MaxLines == 4

\* the lines of such a file: a blank line, a record, a record with
\* surrounding whitespace
PaddedLines == {<<>>, <<"{", "}">>, <<" ", "{", "}", " ">>}

PaddedFiles == FilesOf(PaddedLines, MaxLines)

\* both readers started, before the first scan, on a padded file cut into
\* two chunks at every byte
InitPadded ==
    /\ InitCore
    /\ InitPost
    /\ \E f \in PaddedFiles, cut \in 0..(MaxLines * 5) :
           /\ cut <= Len(f)
           /\ logFile = SubSeq(f, 1, cut)
           /\ logPending = SubSeq(f, cut + 1, Len(f))
    /\ lastReadFiles = [exists |-> FALSE, pos |-> 0]
    /\ blocks = <<>>
    /\ scanned = FALSE
    /\ hwLastReadFiles = [exists |-> FALSE, pos |-> 0]
    /\ hwBlocks = <<>>
    /\ hwScanned = FALSE
    /\ InitAssets
    /\ InitOrders
    /\ InitStart
    /\ InitServer
    /\ InitGo

SpecPadded == InitPadded /\ [][NextTail]_vars

\* the lines of the file that hold a block record, in order (the last one
\* may still lack its newline)
BlocksIn(file) ==
    SelectSeq(Split(file), LAMBDA line : Unmarshal(TrimSpace(line)))

\* the reader of the proxy has handed no more blocks to processBlock than
\* the file holds records
ProxyEachLineAtMostOnce == Len(blocks) <= Len(BlocksIn(logFile))

\* the same for the reader of HyperWS
HwEachLineAtMostOnce == Len(hwBlocks) <= Len(BlocksIn(logFile))

\* C37: across scan ticks and appends, no line of the log file is processed
\* twice: neither reader has handed more blocks to processBlock than the
\* file holds records, also when the file holds blank lines or lines with
\* surrounding whitespace or ends with a record whose newline is not
\* written yet.
C37_EachLineAtMostOnce ==
    /\ ProxyEachLineAtMostOnce
    /\ HwEachLineAtMostOnce


\* C38: at any time at most one inbound loop (readPump) and at most one
\* outbound loop (writePump) of the connector are running: the pumps of a
\* connection have ended before the pumps of a later reconnect use the
\* socket, after any number of disconnect/reconnect cycles.
C38_OnePumpOfEachKind ==
    /\ Cardinality(readPumps) <= 1
    /\ writePumps <= 1


\* C39: a response of the upstream that arrives while or after its caller
\* times out is dropped safely: when handlePostResponse comes to its send
\* and the slot's channel has been closed meanwhile, nothing panics and no
\* slot and no caller is touched; and no caller ever holds a response that
\* carries another id than its own.
C39_LateResponseDropped ==
    /\ [][\A id \in 1..MaxRequests :
             (/\ id \in postDelivering
              /\ postDelivering' = {}
              /\ id \in closedChans)
             => /\ panic' = panic
                /\ postRequests' = postRequests
                /\ calls' = calls]_vars
    /\ [](\A g \in Callers :
             calls[g].response # <<>> /\ calls[g].response[1] = "response"
             => calls[g].response = PostResponse(calls[g].requestID))


\* C40: handling a subscribe never waits on the queue of the subscribing
\* session: whenever the handler is at the delivery of the cached last
\* payload or of a frame of the initial snapshot, it can take that step at
\* once, whatever the queue holds, so the command loop goes on to the next
\* command.
C40_SubscribeNeverWaits ==
    (panic = "" /\ cmd.pc = "sending") => ENABLED BlockingSend

=============================================================================
